---- MODULE Spec2Model ----
(***************************************************************************)
(* Show-cycle production pipeline of the AI radio show bot:                *)
(*   podcast_bot/scheduler.py      run_show_cycle, start_scheduler         *)
(*   podcast_bot/storage_manager.py                                        *)
(*   show_engine.py, podcast_bot/show_engine.py   generate_script          *)
(*   posting_engine.py             post_all_parts, _upload_to_facebook     *)
(* The repository holds two iterations of show_engine / character_manager; *)
(* importDir says which one `import show_engine` resolves to.              *)
(***************************************************************************)
EXTENDS Integers, Sequences, FiniteSets, TLC

\* ------------------------------------------------------------------ bounds
MaxCycles == 2
MaxLines == 2
MaxParts == 3
MaxRetryBudget == 4
MaxClipMs == 2
MaxWords == 2
MaxDeleteFailures == 1
MaxLoopErrors == 1

\* ------------------------------------------------------- program constants
DefaultMaxRetries == 3
BackoffUnit == 30
POSTING_INTERVAL_SECONDS == 600
PART_DURATION_SECONDS == 150
SHOW_INTERVAL_SECONDS == 11400
LoopPauseSeconds == 60
GuestId == 100
NumCleanupPaths == 7

NoExc == "none"

\* ---------------------------------------------------------------- helpers
Range(s) == {s[k] : k \in 1..Len(s)}

Last(s) == s[Len(s)]

\* ------------------------------------------------------------------ state
VARIABLES
  importDir,          \* "root" | "podcast_bot": directory show_engine/character_manager come from
  is_configured,      \* PostingEngine.is_configured
  max_retries,        \* _upload_to_facebook parameter
  cycle,              \* number of cycles started by start_scheduler
  pc,                 \* position of the running cycle
  trace,              \* steps of run_show_cycle started in this cycle, in order
  raisedBy,           \* step whose exception left the try body ("none" if none)
  logged,             \* step named by the critical log entry of the except block
  pending,            \* exception in flight while the finally block runs
  escaped,            \* exception that left run_show_cycle
  hosts, guests,      \* ids of the selected cast
  script,             \* script returned by generate_script, until its last use
  receivedBad,        \* the script received from the generator had an invalid line
  receivedEmpty,      \* the script received from the generator was empty
  total_parts,        \* len(video_parts)
  i,                  \* loop index of post_all_parts (0-based)
  attempt,            \* loop index of _upload_to_facebook (0-based)
  init_response, transfer_response, finish_response,
  upExc,              \* exception caught by the retry handler of the current attempt
  delays,             \* retry delays slept by the current _upload_to_facebook call
  attemptsMade,       \* attempts started by the current _upload_to_facebook call
  caption,            \* caption built for the part being uploaded
  requests,           \* requests issued by the current attempt, in order
  upload_session_id,  \* local of _upload_to_facebook
  published,          \* times the destination published the part being uploaded
  postLog,            \* events of post_all_parts, in order
  postPending,        \* exception in flight while the finally block of post_all_parts runs
  swallowed,          \* _safe_delete caught and logged a deletion error in this cycle
  characters_by_id,   \* CharacterManager.characters_by_id: id -> character
  audioLine,          \* loop index of generate_show_audio (0-based)
  line_audio_metadata,\* records appended by generate_show_audio
  combined_audio,     \* the running track: the clips appended so far, in order
  ttsCalls,           \* calls of tts_to_file made by generate_show_audio
  transcription,      \* response of the transcription request
  srt_file,           \* cues written to the subtitle file
  srt_counter,        \* cue counter of generate_subtitles
  video_duration,     \* split_video_into_parts: duration of the final video, in seconds
  part_paths,         \* split_video_into_parts: the parts cut so far
  prevWaited,         \* the previous cycle slept between posts
  fetchFailed,        \* a fetch of download_background_media failed in this cycle
  fs,                 \* the temp tree: path -> "absent" | "dir" | "file" | "partial" | "complete"
  downloads,          \* calls of download_background_media, in order
  attempted,          \* paths handed to _safe_delete by the last cleanup_show_media
  delFailed,          \* paths whose deletion failed in the last cleanup_show_media
  deleteFailures,     \* deletion errors met so far
  clock,              \* wall clock since process start, in half seconds
  next_run,           \* next_run of the scheduled job, in half seconds
  show_ids,           \* show_id of every cycle started, in order
  loopErrors          \* exceptions caught by the scheduler loop so far

cycleVars == <<cycle, pc, trace, raisedBy, logged, pending, escaped>>
castVars == <<hosts, guests, script, receivedBad, receivedEmpty>>
callVars == <<caption, requests, upload_session_id, published>>
uploadVars == <<attempt, init_response, transfer_response, finish_response,
                upExc, delays, attemptsMade, callVars>>
postVars == <<total_parts, i, postLog, postPending>>
envVars == <<importDir, is_configured, max_retries>>

audioVars == <<audioLine, line_audio_metadata, combined_audio, ttsCalls>>
subVars == <<transcription, srt_file, srt_counter>>
splitVars == <<video_duration, part_paths>>
storeVars == <<fs, downloads, attempted, delFailed, deleteFailures>>
timeVars == <<clock, next_run, show_ids, loopErrors>>
ioVars == <<splitVars, storeVars, timeVars>>
engineVars == <<characters_by_id, audioVars, subVars, ioVars>>
schedVars == <<prevWaited, fetchFailed>>

vars == <<envVars, cycleVars, castVars, uploadVars, postVars, swallowed, engineVars, schedVars>>

\* ------------------------------------------------------------ script lines
AllKeys == {"speaker_id", "text", "scene", "emotion"}

\* a speaker_id value as decoded from JSON
IntId(n) == [kind |-> "int", n |-> n, s |-> ""]

StrId(s) == [kind |-> "str", n |-> 0, s |-> s]

NullId == [kind |-> "null", n |-> 0, s |-> ""]

\* a JSON number with a fraction part of zero (2.0): a float equal to the integer n
FloatId(n) == [kind |-> "float", n |-> n, s |-> ""]

SpeakerSamples == {IntId(1), IntId(2), IntId(3), IntId(GuestId),
                   StrId("host"), StrId("bob"), NullId, FloatId(2)}

\* a script line: the value under "speaker_id" and the keys the object has
Line(sp, keys) == [speaker_id |-> sp, keys |-> keys]

LineSamples ==
  {Line(sp, AllKeys) : sp \in SpeakerSamples}
    \cup {Line(IntId(1), AllKeys \ {k}) : k \in {"text", "scene", "emotion"}}
    \cup {Line(NullId, AllKeys \ {"speaker_id"})}

RECURSIVE SeqsUpTo(_, _)
SeqsUpTo(S, n) ==
  IF n = 0 THEN {<<>>}
  ELSE LET shorter == SeqsUpTo(S, n - 1)
       IN shorter \cup {Append(s, x) : s \in {t \in shorter : Len(t) = n - 1}, x \in S}

Scripts == SeqsUpTo(LineSamples, MaxLines)

\* --------------------------------------------------------- character roster
\* character_manager.py: one of the two static hosts, one generated guest (id 100)
\* podcast_bot/character_manager.py: Jack and Olivia host, one male and one
\* female guest of the roster file (ids 3 and 4 here)
Casts(dir) ==
  IF dir = "root"
  THEN {[hosts |-> <<h>>, guests |-> <<GuestId>>] : h \in {1, 2}}
  ELSE {[hosts |-> <<1, 2>>, guests |-> <<3, 4>>]}

CharName(id) ==
  CASE id = 1 -> "jack" [] id = 2 -> "olivia" [] id = 3 -> "ryan"
    [] id = 4 -> "mia" [] OTHER -> "sam"

\* ------------------------------------------------ character_manager.py
\* _load_static_characters: Jack and Olivia
StaticHosts ==
  (1 :> [gender |-> "male", voice |-> "host_male"])
    @@ (2 :> [gender |-> "female", voice |-> "host_female"])

\* variant: the generated guest has the gender of the host
GeneratedGuest_SameGender(host) ==
  [gender |-> StaticHosts[host].gender, voice |-> "guest_voice"]

\* the guest generated by select_show_participants for the chosen host
GeneratedGuest(host) ==
  [gender |-> IF StaticHosts[host].gender = "male" THEN "female" ELSE "male",
   voice |-> "guest_voice"]

\* `self.characters_by_id[100] = guest`
WithGuest(roster, host) ==
  [id \in DOMAIN roster \cup {GuestId} |->
     IF id = GuestId THEN GeneratedGuest(host) ELSE roster[id]]

\* config.AVAILABLE_VOICES
AVAILABLE_VOICES == {"vits_male_01", "vits_female_01", "vits_male_02", "vits_female_02"}

\* podcast_bot/character_manager.py: a roster file accepted by
\* _validate_all_characters (gender male or female, voice among the
\* available ones); v is the voice key the file gives character 3
PodcastRoster(v) ==
  (1 :> [gender |-> "male", voice |-> "vits_male_01"])
    @@ (2 :> [gender |-> "female", voice |-> "vits_female_01"])
    @@ (3 :> [gender |-> "male", voice |-> v])
    @@ (4 :> [gender |-> "female", voice |-> "vits_female_02"])
    @@ (5 :> [gender |-> "male", voice |-> "vits_male_02"])

\* characters_by_id after __init__
LoadedRoster(dir) == IF dir = "root" THEN StaticHosts ELSE PodcastRoster("vits_male_02")

\* ------------------------------------------------- show_engine.py (root)
\* name_map of generate_script
NameMap(host, guest) ==
  [s \in {CharName(host), CharName(guest), "host", "guest"} |->
     IF s = CharName(host) \/ s = "host" THEN host ELSE guest]

\* the "ID fixer" applied to one line that has a speaker_id key
FixSpeaker(sp, host, guest) ==
  IF sp.kind = "str"
  THEN IF sp.s \in DOMAIN NameMap(host, guest)
       THEN IntId(NameMap(host, guest)[sp.s])
       ELSE IntId(guest)
  ELSE IF sp.kind = "int"
       THEN IF sp.n \notin {host, guest} THEN IntId(guest) ELSE sp
       ELSE sp

\* result of the root generate_script on the decoded script `raw`
RootGenerateScript(raw, host, guest) ==
  IF \E k \in 1..Len(raw) : "speaker_id" \notin raw[k].keys
  THEN [exc |-> "KeyError", script |-> <<>>]
  ELSE [exc |-> NoExc,
        script |-> [k \in 1..Len(raw) |->
                      Line(FixSpeaker(raw[k].speaker_id, host, guest), raw[k].keys)]]

\* ------------------------------------------ podcast_bot/show_engine.py
ValidateScript(scr, characters) ==
  IF scr = <<>> THEN "ValueError"
  ELSE IF \E k \in 1..Len(scr) :
            \/ ~(AllKeys \subseteq scr[k].keys)
            \/ scr[k].speaker_id.kind \notin {"int", "float"}
            \/ scr[k].speaker_id.n \notin characters
       THEN "ValueError"
       ELSE NoExc

PodcastGenerateScript(raw, characters) ==
  IF ValidateScript(raw, characters) # NoExc
  THEN [exc |-> ValidateScript(raw, characters), script |-> <<>>]
  ELSE [exc |-> NoExc, script |-> raw]

\* generate_script of the module that `import show_engine` resolves to
GenerateScriptResult(dir, raw, hs, gs) ==
  IF dir = "root"
  THEN RootGenerateScript(raw, hs[1], gs[1])
  ELSE PodcastGenerateScript(raw, Range(hs) \cup Range(gs))

\* ----------------------------------------- scheduler.py: run_show_cycle
\* statements of the try body, in program order
CycleSteps == <<"create_show_directories", "download_background_media",
                "select_show_participants", "generate_script",
                "generate_show_audio", "generate_subtitles", "assemble_video",
                "split_video_into_parts", "post_all_parts">>

StepIndex(step) == CHOOSE k \in 1..Len(CycleSteps) : CycleSteps[k] = step

ExceptionKinds == {"OSError", "IOError", "ValueError", "KeyError",
                   "RuntimeError", "RequestException", "APIError"}

\* `except Exception` of run_show_cycle
CycleCatches(exc) == exc \in ExceptionKinds

\* variant: the emptiness check is missing
EmptyScriptCheck_Missing(scr) == NoExc

\* `if not script: raise ValueError` of run_show_cycle
EmptyScriptCheck(scr) == IF Len(scr) = 0 THEN "ValueError" ELSE NoExc

\* variant: the early return leaves the cycle without its finally block
AfterSplit_SkipsFinally(nparts) == IF nparts = 0 THEN "returned" ELSE "post_all_parts"

\* variant: the emptiness test of the part list is missing
AfterSplit_PostsAnyway(nparts) == "post_all_parts"

\* `if not video_parts: return` of run_show_cycle: where control goes after split
AfterSplit(nparts) == IF nparts = 0 THEN "cleanup_show_media" ELSE "post_all_parts"

\* variant: _safe_delete has no except clause
SafeDeleteRaises_NoCatch(exc) == exc

\* except (OSError, shutil.Error) of _safe_delete: the exception that leaves it
SafeDeleteRaises(exc) == IF exc \in {"OSError", "shutil.Error"} THEN NoExc ELSE exc

\* statement `step` of the try body completes normally
Proceed(step, next) ==
  /\ pc' = next
  /\ trace' = Append(trace, step)
  /\ UNCHANGED <<cycle, raisedBy, logged, pending, escaped>>

\* variant: the exception of a stage is logged and the try body goes on
Abort_GoesOn(step, exc) ==
  /\ pc' = IF StepIndex(step) < Len(CycleSteps)
           THEN CycleSteps[StepIndex(step) + 1] ELSE "cleanup_show_media"
  /\ raisedBy' = step
  /\ logged' = step
  /\ pending' = NoExc
  /\ UNCHANGED <<cycle, escaped>>

\* exc leaves statement `step` of the try body: except block, then finally
Abort(step, exc) ==
  /\ pc' = "cleanup_show_media"
  /\ raisedBy' = step
  /\ logged' = IF CycleCatches(exc) THEN step ELSE logged
  /\ pending' = IF CycleCatches(exc) THEN NoExc ELSE exc
  /\ UNCHANGED <<cycle, escaped>>

\* statement `step` of the try body is entered and raises exc
Raise(step, exc) ==
  /\ trace' = Append(trace, step)
  /\ Abort(step, exc)

NoResponse == [transport |-> "none", status2xx |-> FALSE, error |-> FALSE,
               session |-> FALSE, success |-> "absent"]

\* no transcription requested yet
NoTranscription == [words |-> <<>>, segments |-> <<>>]

\* start_scheduler calls run_show_cycle: show_id, StorageManager(show_id)
\* variant: the job is started by a timer, whatever the previous one is doing
SchedulerIdle_Timer(position) == TRUE

\* start_scheduler calls run_show_cycle and run_pending from its one thread:
\* the next call is made when the previous one has returned
SchedulerIdle(position) == position \in {"idle", "returned"}

\* the cycle that produced this posting log slept between posts or backed off
WaitedInCycle(log) == \E k \in 1..Len(log) : log[k].ev = "sleep"

\* lines 127 and 131 of start_scheduler, then lines 61-67 of run_show_cycle
StartCycle ==
  /\ SchedulerIdle(pc)
  /\ cycle < MaxCycles
  /\ cycle' = cycle + 1
  /\ pc' = "create_show_directories"
  /\ trace' = <<>>
  /\ raisedBy' = NoExc /\ logged' = NoExc /\ pending' = NoExc /\ escaped' = NoExc
  /\ hosts' = <<>> /\ guests' = <<>> /\ script' = <<>>
  /\ receivedBad' = FALSE /\ receivedEmpty' = FALSE
  /\ total_parts' = 0 /\ i' = 0 /\ postLog' = <<>>
  /\ postPending' = NoExc
  /\ attempt' = 0 /\ attemptsMade' = 0 /\ delays' = <<>> /\ upExc' = NoExc
  /\ caption' = <<>> /\ requests' = <<>> /\ upload_session_id' = 0 /\ published' = 0
  /\ init_response' = NoResponse /\ transfer_response' = NoResponse
  /\ finish_response' = NoResponse
  /\ swallowed' = FALSE
  /\ prevWaited' = WaitedInCycle(postLog)
  /\ fetchFailed' = FALSE
  /\ UNCHANGED <<envVars, engineVars>>

CreateShowDirectories ==
  /\ pc = "create_show_directories"
  /\ \/ Proceed("create_show_directories", "download_background_media")
     \/ Raise("create_show_directories", "OSError")
  /\ UNCHANGED <<envVars, schedVars, engineVars, castVars, uploadVars, postVars, swallowed>>

\* storage_manager.py: what one call of download_background_media meets:
\* both files cached, both fetched, a connection error, a non-2xx status
FetchOutcomes == {"cached", "ok", "network_error", "http_error"}

\* variant: a failed fetch is logged and the call returns
DownloadRaises_Swallowed(outcome) == NoExc

\* storage_manager.py lines 73-74 and 79-81: requests.get and
\* raise_for_status raise RequestException, re-raised as IOError
DownloadRaises(outcome) ==
  IF outcome \in {"network_error", "http_error"} THEN "IOError" ELSE NoExc

\* scheduler.py line 72: storage_manager.download_background_media()
DownloadBackgroundMedia ==
  /\ pc = "download_background_media"
  /\ \E outcome \in FetchOutcomes :
       /\ fetchFailed' = (outcome \in {"network_error", "http_error"})
       /\ IF DownloadRaises(outcome) = NoExc
          THEN Proceed("download_background_media", "select_show_participants")
          ELSE Raise("download_background_media", DownloadRaises(outcome))
  /\ UNCHANGED <<envVars, prevWaited, engineVars, castVars, uploadVars, postVars, swallowed>>

SelectShowParticipants ==
  /\ pc = "select_show_participants"
  /\ \/ /\ \E c \in Casts(importDir) :
             /\ hosts' = c.hosts /\ guests' = c.guests
             /\ characters_by_id' = IF importDir = "root"
                                    THEN WithGuest(characters_by_id, c.hosts[1])
                                    ELSE characters_by_id
        /\ Proceed("select_show_participants", "generate_script")
     \/ /\ importDir = "podcast_bot"
        /\ Raise("select_show_participants", "ValueError")
        /\ UNCHANGED <<hosts, guests, characters_by_id>>
  /\ UNCHANGED <<envVars, schedVars, audioVars, subVars, ioVars, script, receivedBad, receivedEmpty, uploadVars,
                 postVars, swallowed>>

\* a line of the received script the pipeline has to reject: a required
\* field is missing or speaker_id is not the id of a cast member
InvalidLine(line, cast) ==
  \/ ~(AllKeys \subseteq line.keys)
  \/ line.speaker_id.kind # "int"
  \/ line.speaker_id.n \notin cast

HasInvalidLine(scr, cast) == \E k \in 1..Len(scr) : InvalidLine(scr[k], cast)

\* lines 79-81: generate_script(hosts, guests, show_id), then the emptiness check
GenerateScript ==
  /\ pc = "generate_script"
  /\ \/ /\ Raise("generate_script", "APIError")
        /\ UNCHANGED <<script, receivedBad, receivedEmpty>>
     \/ \E raw \in Scripts :
          LET res == GenerateScriptResult(importDir, raw, hosts, guests)
              exc == IF res.exc # NoExc THEN res.exc ELSE EmptyScriptCheck(res.script)
          IN /\ receivedBad' = HasInvalidLine(raw, Range(hosts) \cup Range(guests))
             /\ receivedEmpty' = (raw = <<>>)
             /\ IF exc # NoExc
                THEN Raise("generate_script", exc) /\ UNCHANGED script
                ELSE Proceed("generate_script", "generate_show_audio")
                     /\ script' = res.script
  /\ UNCHANGED <<envVars, schedVars, engineVars, hosts, guests, uploadVars, postVars, swallowed>>

\* voice_engine.generate_show_audio: line["speaker_id"], line["text"] are read
\* outside the per-line try
AudioKeyError(scr) ==
  IF \E k \in 1..Len(scr) : ~({"speaker_id", "text"} \subseteq scr[k].keys)
  THEN "KeyError" ELSE NoExc

\* line 84: the last use of `script` in run_show_cycle
GenerateShowAudio ==
  /\ pc = "generate_show_audio"
  /\ IF AudioKeyError(script) # NoExc
     THEN Raise("generate_show_audio", AudioKeyError(script)) /\ UNCHANGED script
     ELSE \/ Proceed("generate_show_audio", "generate_subtitles") /\ script' = <<>>
          \/ Raise("generate_show_audio", "OSError") /\ UNCHANGED script
  /\ UNCHANGED <<envVars, schedVars, engineVars, hosts, guests, receivedBad, receivedEmpty, uploadVars,
                 postVars, swallowed>>

GenerateSubtitles ==
  /\ pc = "generate_subtitles"
  /\ \/ Proceed("generate_subtitles", "assemble_video")
     \/ Raise("generate_subtitles", "APIError")
  /\ UNCHANGED <<envVars, schedVars, engineVars, castVars, uploadVars, postVars, swallowed>>

AssembleVideo ==
  /\ pc = "assemble_video"
  /\ \/ Proceed("assemble_video", "split_video_into_parts")
     \/ Raise("assemble_video", "RuntimeError")
  /\ UNCHANGED <<envVars, schedVars, engineVars, castVars, uploadVars, postVars, swallowed>>

\* ------------------------ video_engine.py: split_video_into_parts
\* durations of the final video, in whole seconds
VideoDurations == 0..(MaxParts * PART_DURATION_SECONDS)

\* variant: the quotient is rounded down
NumParts_Floor(duration) == duration \div PART_DURATION_SECONDS

\* line 148: math.ceil(video_duration / config.PART_DURATION_SECONDS)
NumParts(duration) ==
  (duration + PART_DURATION_SECONDS - 1) \div PART_DURATION_SECONDS

\* the numbers of parts a final video can be cut into
PartCounts == {NumParts(d) : d \in VideoDurations}

\* variant: the offset is computed from the 1-based part number
PartStart_OneBased(idx) == (idx + 1) * PART_DURATION_SECONDS

\* line 155: start_time = i * config.PART_DURATION_SECONDS
PartStart(idx) == idx * PART_DURATION_SECONDS

\* variant: every part is as long as the nominal part length
PartSpan_Full(duration, start) == PART_DURATION_SECONDS

\* the span ffmpeg cuts for `ss=start, t=PART_DURATION_SECONDS`: up to the
\* end of the input
PartSpan(duration, start) ==
  IF start >= duration THEN 0
  ELSE IF duration - start < PART_DURATION_SECONDS
       THEN duration - start ELSE PART_DURATION_SECONDS

\* lines 154-168: one iteration of `for i in range(num_parts)`
SplitCut ==
  /\ pc = "split_loop"
  /\ Len(part_paths) < NumParts(video_duration)
  /\ \/ LET idx == Len(part_paths)
        IN /\ part_paths' = Append(part_paths,
                   [index |-> idx + 1, start |-> PartStart(idx),
                    span |-> PartSpan(video_duration, PartStart(idx))])
           /\ pc' = "split_loop"
     \/ \* ffmpeg.Error: RuntimeError leaves split_video_into_parts
        /\ pc' = "split_raised"
        /\ UNCHANGED part_paths
  /\ UNCHANGED <<envVars, schedVars, cycle, trace, raisedBy, logged, pending, escaped,
                 castVars, uploadVars, postVars, swallowed, characters_by_id,
                 audioVars, subVars, video_duration, storeVars, timeVars>>

\* lines 170-171: return part_paths
SplitReturn ==
  /\ pc = "split_loop"
  /\ Len(part_paths) = NumParts(video_duration)
  /\ pc' = "split_returned"
  /\ UNCHANGED <<envVars, schedVars, cycle, trace, raisedBy, logged, pending, escaped,
                 castVars, uploadVars, postVars, swallowed, engineVars>>

\* lines 92-95: split, then `if not video_parts: return`
SplitVideoIntoParts ==
  /\ pc = "split_video_into_parts"
  /\ \/ \E d \in VideoDurations :
          /\ total_parts' = NumParts(d)
          /\ Proceed("split_video_into_parts", AfterSplit(NumParts(d)))
     \/ /\ Raise("split_video_into_parts", "RuntimeError")
        /\ UNCHANGED total_parts
  /\ UNCHANGED <<envVars, schedVars, engineVars, castVars, uploadVars, i, postLog, postPending,
                 swallowed>>

\* ------------------------------------------- posting_engine.py: responses
Resp(transport, status2xx, error, session, success) ==
  [transport |-> transport, status2xx |-> status2xx, error |-> error,
   session |-> session, success |-> success]

\* transport "fail": requests.post or .json() raises a RequestException
StartResponses ==
  {Resp("fail", FALSE, FALSE, FALSE, "absent"),
   Resp("ok", TRUE, TRUE, FALSE, "absent"),
   Resp("ok", TRUE, TRUE, TRUE, "absent"),
   Resp("ok", TRUE, FALSE, FALSE, "absent"),
   Resp("ok", TRUE, FALSE, TRUE, "absent")}

TransferResponses ==
  {Resp("fail", FALSE, FALSE, FALSE, "absent"),
   Resp("ok", FALSE, FALSE, FALSE, "absent"),
   Resp("ok", TRUE, TRUE, FALSE, "absent"),
   Resp("ok", TRUE, FALSE, FALSE, "absent")}

FinishResponses ==
  {Resp("fail", FALSE, FALSE, FALSE, "absent"),
   Resp("ok", TRUE, TRUE, FALSE, "absent"),
   Resp("ok", TRUE, TRUE, FALSE, "true"),
   Resp("ok", TRUE, FALSE, FALSE, "absent"),
   Resp("ok", TRUE, FALSE, FALSE, "false"),
   Resp("ok", TRUE, FALSE, FALSE, "true")}

\* phase 1: the exception the start response leads to
StartCheck(r) ==
  IF r.transport = "fail" THEN "RequestException"
  ELSE IF r.error THEN "RuntimeError"
  ELSE IF ~r.session THEN "RuntimeError"
  ELSE NoExc

\* phase 2: raise_for_status, then the embedded error
TransferCheck(r) ==
  IF r.transport = "fail" \/ ~r.status2xx THEN "RequestException"
  ELSE IF r.error THEN "RuntimeError"
  ELSE NoExc

\* variant: the success acknowledgment is not required
FinishCheck_NoAck(r) ==
  IF r.transport = "fail" THEN "RequestException"
  ELSE IF r.error THEN "RuntimeError"
  ELSE NoExc

\* phase 3: embedded error, then the success acknowledgment
FinishCheck(r) ==
  IF r.transport = "fail" THEN "RequestException"
  ELSE IF r.error THEN "RuntimeError"
  ELSE IF r.success # "true" THEN "RuntimeError"
  ELSE NoExc

\* variant: the retry handler catches every exception
UploadRetryCatches_All(exc) == TRUE

\* except (RequestException, RuntimeError) of _upload_to_facebook
UploadRetryCatches(exc) == exc \in {"RequestException", "RuntimeError"}

\* variant: the handler gives up one attempt early
RetryAgain_OneShort(att, budget) == att < budget - 2

\* `if attempt < max_retries - 1` of the retry handler
RetryAgain(att, budget) == att < budget - 1

\* retry_delay = 30 * (attempt + 1)
RetryDelay(att) == BackoffUnit * (att + 1)

\* variant: post_all_parts catches network errors only
PostCatches_Narrow(exc) == exc = "RequestException"

\* `except Exception` of post_all_parts
PostCatches(exc) == exc \in ExceptionKinds

\* an entry of the log of post_all_parts: upload call, posted / error log line,
\* release of the part file, inter-post sleep
Event(ev, part, secs, exc) == [ev |-> ev, part |-> part, secs |-> secs, exc |-> exc]

\* ------------------------------- posting_engine.py: _generate_caption
\* pieces of a caption: literal text, a number, a character's name, a
\* character's persona, a replacement field of a template
Lit(text) == [kind |-> "lit", text |-> text, num |-> 0]

Num(n) == [kind |-> "num", text |-> "", num |-> n]

NameOf(id) == [kind |-> "name", text |-> "", num |-> id]

PersonaOf(id) == [kind |-> "persona", text |-> "", num |-> id]

Field(name) == [kind |-> "field", text |-> name, num |-> 0]

\* config.py line 102
POSTING_CAPTION_TEMPLATE ==
  <<Lit("Date Update! Will"), Field("guest1"), Lit("and"), Field("guest2"),
    Lit("find love? Our hosts"), Field("host1"), Lit("and"), Field("host2"),
    Lit("get all the details. #AIRadio #DatingShow #AI")>>

\* str.format(**args): the KeyError of a field without argument, else the
\* template with every field replaced
Format(template, args) ==
  IF \E k \in 1..Len(template) :
       template[k].kind = "field" /\ template[k].text \notin DOMAIN args
  THEN [exc |-> "KeyError", text |-> <<>>]
  ELSE [exc |-> NoExc,
        text |-> [k \in 1..Len(template) |->
                    IF template[k].kind = "field"
                    THEN args[template[k].text] ELSE template[k]]]

\* lines 37-49: the template with host= and guest=, or the fallback caption
CaptionBody(host, guest) ==
  LET formatted == Format(POSTING_CAPTION_TEMPLATE,
                          [a \in {"host", "guest"} |->
                             IF a = "host" THEN NameOf(host) ELSE NameOf(guest)])
  IN IF formatted.exc = NoExc THEN formatted.text
     ELSE <<Lit("The Ex-Files:"), NameOf(host), Lit("interviews"),
            NameOf(guest), Lit("about:"), PersonaOf(guest)>>

\* variant: the last part gets the indicator of a middle part
PartIndicator_NoFinal(part_num, total) ==
  IF total > 1
  THEN IF part_num = 1
       THEN <<Lit("PART"), Num(part_num), Lit("/"), Num(total),
              Lit("| More coming in 10 minutes...")>>
       ELSE <<Lit("PART"), Num(part_num), Lit("/"), Num(total)>>
  ELSE <<>>

\* lines 51-58: the part indicator of a multi-part video
PartIndicator(part_num, total) ==
  IF total > 1
  THEN IF part_num = 1
       THEN <<Lit("PART"), Num(part_num), Lit("/"), Num(total),
              Lit("| More coming in 10 minutes...")>>
       ELSE IF part_num = total
       THEN <<Lit("FINAL PART ("), Num(part_num), Lit("/"), Num(total),
              Lit(") | Did you watch from the start?")>>
       ELSE <<Lit("PART"), Num(part_num), Lit("/"), Num(total)>>
  ELSE <<>>

\* _generate_caption(hosts, guests, part_num, total_parts)
GenerateCaption(hs, gs, part_num, total) ==
  CaptionBody(hs[1], gs[1]) \o PartIndicator(part_num, total)

\* --------------------------- posting_engine.py: _upload_to_facebook
\* a request of the resumable upload: its phase and the session id it carries
Request(phase, session) == [phase |-> phase, session |-> session]

\* variant: a retry resumes with the transfer of the session it has
AttemptEntry_Resume == "upload_transfer"

\* line 110, `for attempt in range(max_retries)`: an iteration begins with
\* the start request
AttemptEntry == "upload_start"

\* what the destination did with a finish request: a success acknowledgment
\* means it published; when the response is lost it may have done so or not
MayHavePublished(r) ==
  IF r.transport = "fail" THEN {0, 1}
  ELSE IF ~r.error /\ r.success = "true" THEN {1} ELSE {0}

\* ------------------------------------ posting_engine.py: post_all_parts
\* variant: the unconfigured branch returns without touching the part files
SkipUnconfigured_NoCleanup(total) == <<>>

\* lines 68-69: `for part in video_parts: cleanup_posted_part(part)`
SkipUnconfigured(total) == [k \in 1..total |-> Event("release", k, 0, NoExc)]

\* lines 98-99 of the scheduler and lines 66-73 of post_all_parts
PostAllParts ==
  /\ pc = "post_all_parts"
  /\ trace' = Append(trace, "post_all_parts")
  /\ IF ~is_configured
     THEN /\ \E errs \in 0..total_parts : swallowed' = (swallowed \/ (errs > 0))
          /\ postLog' = SkipUnconfigured(total_parts)
          /\ pc' = "cleanup_show_media"
     ELSE /\ pc' = "upload_stat"
          /\ UNCHANGED <<postLog, swallowed>>
  /\ i' = 0
  /\ UNCHANGED <<envVars, schedVars, engineVars, castVars, uploadVars, cycle, raisedBy, logged, pending,
                 escaped, total_parts, postPending>>

\* exc is raised inside the try of the attempt loop: the retry handler
UploadFail(exc) ==
  /\ upExc' = exc
  /\ IF UploadRetryCatches(exc) /\ RetryAgain(attempt, max_retries)
     THEN pc' = "upload_backoff"
     ELSE pc' = "upload_raised"

\* lines 79-82 and 108: caption, call of _upload_to_facebook, file_size
UploadBegin ==
  /\ pc = "upload_stat"
  /\ postLog' = Append(postLog, Event("upload", i + 1, 0, NoExc))
  /\ attempt' = 0 /\ attemptsMade' = 0 /\ delays' = <<>>
  /\ caption' = GenerateCaption(hosts, guests, i + 1, total_parts)
  /\ requests' = <<>> /\ upload_session_id' = 0 /\ published' = 0
  /\ init_response' = NoResponse /\ transfer_response' = NoResponse
  /\ finish_response' = NoResponse
  /\ \/ /\ pc' = IF 0 < max_retries THEN AttemptEntry ELSE "upload_returned"
        /\ upExc' = NoExc
     \/ /\ pc' = "upload_raised"
        /\ upExc' = "OSError"
  /\ UNCHANGED <<envVars, schedVars, engineVars, castVars, cycle, trace, raisedBy, logged, pending,
                 escaped, total_parts, i, postPending, swallowed>>

\* phase 1 of one attempt
PhaseStart ==
  /\ pc = "upload_start"
  /\ attemptsMade' = attemptsMade + 1
  /\ requests' = Append(requests, Request("start", 0))
  /\ \E r \in StartResponses :
       /\ init_response' = r
       /\ IF StartCheck(r) = NoExc
          THEN /\ pc' = "upload_transfer"
               /\ upload_session_id' = attemptsMade + 1
               /\ UNCHANGED upExc
          ELSE /\ UploadFail(StartCheck(r))
               /\ UNCHANGED upload_session_id
  /\ UNCHANGED <<envVars, schedVars, engineVars, castVars, cycle, trace, raisedBy, logged, pending,
                 escaped, postVars, swallowed, attempt,
                 transfer_response, finish_response, delays, caption, published>>

\* phase 2 of one attempt: open the part file, transfer it
PhaseTransfer ==
  /\ pc = "upload_transfer"
  /\ \/ /\ UploadFail("OSError")
        /\ UNCHANGED <<transfer_response, requests>>
     \/ \E r \in TransferResponses :
          /\ transfer_response' = r
          /\ requests' = Append(requests, Request("transfer", upload_session_id))
          /\ IF TransferCheck(r) = NoExc
             THEN pc' = "upload_finish" /\ UNCHANGED upExc
             ELSE UploadFail(TransferCheck(r))
  /\ UNCHANGED <<envVars, schedVars, engineVars, castVars, cycle, trace, raisedBy, logged, pending,
                 escaped, postVars, swallowed, attempt,
                 attemptsMade, init_response, finish_response, delays,
                 caption, upload_session_id, published>>

\* phase 3 of one attempt; `return` on success
PhaseFinish ==
  /\ pc = "upload_finish"
  /\ requests' = Append(requests, Request("finish", upload_session_id))
  /\ \E r \in FinishResponses :
       /\ finish_response' = r
       /\ \E done \in MayHavePublished(r) : published' = published + done
       /\ IF FinishCheck(r) = NoExc
          THEN pc' = "upload_returned" /\ UNCHANGED upExc
          ELSE UploadFail(FinishCheck(r))
  /\ UNCHANGED <<envVars, schedVars, engineVars, castVars, cycle, trace, raisedBy, logged, pending,
                 escaped, postVars, swallowed, attempt,
                 attemptsMade, init_response, transfer_response, delays,
                 caption, upload_session_id>>

\* time.sleep(retry_delay), then the next iteration of the attempt loop
Backoff ==
  /\ pc = "upload_backoff"
  /\ delays' = Append(delays, RetryDelay(attempt))
  /\ attempt' = attempt + 1
  /\ init_response' = NoResponse /\ transfer_response' = NoResponse
  /\ finish_response' = NoResponse
  /\ upExc' = NoExc
  /\ requests' = <<>>
  /\ pc' = IF attempt + 1 < max_retries THEN AttemptEntry ELSE "upload_returned"
  /\ UNCHANGED <<envVars, schedVars, engineVars, castVars, cycle, trace, raisedBy, logged, pending,
                 escaped, postVars, swallowed, attemptsMade,
                 caption, upload_session_id, published>>

\* lines 82-85: _upload_to_facebook has returned or raised into the try of
\* post_all_parts; its locals are gone
UploadExit ==
  /\ pc \in {"upload_returned", "upload_raised"}
  /\ IF pc = "upload_returned"
     THEN /\ postLog' = Append(postLog, Event("posted", i + 1, 0, NoExc))
          /\ UNCHANGED postPending
     ELSE /\ postLog' = IF PostCatches(upExc)
                        THEN Append(postLog, Event("error", i + 1, 0, upExc))
                        ELSE postLog
          /\ postPending' = IF PostCatches(upExc) THEN NoExc ELSE upExc
  /\ pc' = "post_release"
  /\ attempt' = 0 /\ attemptsMade' = 0 /\ delays' = <<>> /\ upExc' = NoExc
  /\ caption' = <<>> /\ requests' = <<>> /\ upload_session_id' = 0 /\ published' = 0
  /\ init_response' = NoResponse /\ transfer_response' = NoResponse
  /\ finish_response' = NoResponse
  /\ UNCHANGED <<envVars, schedVars, engineVars, castVars, cycle, trace, raisedBy, logged, pending,
                 escaped, total_parts, i, swallowed>>

\* variant: the part is released only after a successful upload
CleanupPostedPart_OnSuccess(log, part) ==
  IF log # <<>> /\ Last(log).ev = "posted"
  THEN Append(log, Event("release", part, 0, NoExc)) ELSE log

\* cleanup_posted_part(part_path) as seen in the log
CleanupPostedPart(log, part) == Append(log, Event("release", part, 0, NoExc))

\* variant: the sleep follows every part
SleepAfter_Always(idx, total) == TRUE

\* `if i < total_parts - 1` of the finally block
SleepAfter(idx, total) == idx < total - 1

\* finally block of one part, first statement: cleanup_posted_part(part_path)
PostRelease ==
  /\ pc = "post_release"
  /\ postLog' = CleanupPostedPart(postLog, i + 1)
  /\ \E delExc \in {NoExc, "OSError"} :
       LET out == IF delExc = NoExc THEN NoExc ELSE SafeDeleteRaises(delExc)
       IN /\ swallowed' = (swallowed \/ (delExc # NoExc /\ out = NoExc))
          /\ IF out # NoExc
             THEN Abort("post_all_parts", out)
             ELSE IF SleepAfter(i, total_parts)
             THEN pc' = "post_sleep"
                  /\ UNCHANGED <<cycle, raisedBy, logged, pending, escaped>>
             ELSE IF postPending # NoExc
             THEN Abort("post_all_parts", postPending)
             ELSE pc' = "cleanup_show_media"
                  /\ UNCHANGED <<cycle, raisedBy, logged, pending, escaped>>
  /\ UNCHANGED <<envVars, schedVars, engineVars, castVars, uploadVars, trace, total_parts, i,
                 postPending>>

\* finally block of one part, second statement: time.sleep(POSTING_INTERVAL_SECONDS)
PostSleep ==
  /\ pc = "post_sleep"
  /\ postLog' = Append(postLog, Event("sleep", i + 1, POSTING_INTERVAL_SECONDS, NoExc))
  /\ IF postPending # NoExc
     THEN Abort("post_all_parts", postPending) /\ UNCHANGED i
     ELSE /\ pc' = "upload_stat"
          /\ i' = i + 1
          /\ UNCHANGED <<cycle, raisedBy, logged, pending, escaped>>
  /\ UNCHANGED <<envVars, schedVars, engineVars, castVars, uploadVars, trace, total_parts,
                 postPending, swallowed>>

\* ------------------------------ storage_manager.py: cleanup_show_media
\* finally block of run_show_cycle: seven _safe_delete calls, then the return
CleanupShowMedia ==
  /\ pc = "cleanup_show_media"
  /\ trace' = Append(trace, "cleanup_show_media")
  /\ \E n \in 0..NumCleanupPaths :
       LET out == IF n = 0 THEN NoExc ELSE SafeDeleteRaises("OSError")
       IN /\ swallowed' = (swallowed \/ (n > 0 /\ out = NoExc))
          /\ escaped' = IF out # NoExc THEN out ELSE pending
  /\ pending' = NoExc
  /\ pc' = "returned"
  /\ UNCHANGED <<envVars, schedVars, engineVars, castVars, uploadVars, postVars, cycle, raisedBy, logged>>

\* ----------------------------- voice_engine.py: generate_show_audio
VOICE_MODEL_MAP(dir) ==
  IF dir = "root"
  THEN [k \in AVAILABLE_VOICES |->
          CASE k = "vits_male_01" -> "p226" [] k = "vits_female_01" -> "p225"
            [] k = "vits_male_02" -> "p237" [] OTHER -> "p236"]
  ELSE [k \in AVAILABLE_VOICES |->
          CASE k = "vits_male_01" -> "p228" [] k = "vits_female_01" -> "p232"
            [] k = "vits_male_02" -> "p231" [] OTHER -> "p230"]

\* the gender of a synthesis voice, as the voice tables document it
VoiceGender(speaker) ==
  IF speaker \in {"p226", "p237", "p228", "p231"} THEN "male" ELSE "female"

\* variant: one fallback voice whatever the gender
FallbackVoice_Fixed(gender) == "p226"

\* line 116: `"p226" if character['gender'] == 'male' else "p225"`
FallbackVoice(gender) == IF gender = "male" THEN "p226" ELSE "p225"

\* voice resolution of one line: the exception raised or the voice chosen
ResolveVoice(dir, character) ==
  IF character.voice \in DOMAIN VOICE_MODEL_MAP(dir)
  THEN [exc |-> NoExc, speaker |-> VOICE_MODEL_MAP(dir)[character.voice]]
  ELSE IF dir = "root"
       THEN [exc |-> NoExc, speaker |-> FallbackVoice(character.gender)]
       ELSE [exc |-> "ValueError", speaker |-> ""]

\* get_character_by_id(speaker_id): a dict lookup; 2.0 finds the entry of 2
CharacterKnown(roster, sp) == sp.kind \in {"int", "float"} /\ sp.n \in DOMAIN roster

\* a clip of the running track: the script line it was synthesized from
Clip(line, ms) == [line |-> line, ms |-> ms]

\* variant: the new clip is put in front of the running track
Concat_Prepend(track, clip) == <<clip>> \o track

\* `combined_audio += line_audio`
Concat(track, clip) == Append(track, clip)

ClipDurations == 1..MaxClipMs

\* one iteration of the loop over the script (lines 101-149)
AudioLine ==
  /\ pc = "audio_line"
  /\ audioLine < Len(script)
  /\ LET idx == audioLine + 1
         line == script[idx]
         sp == line.speaker_id
     IN IF ~({"speaker_id", "text"} \subseteq line.keys)
        THEN \* line["speaker_id"] / line["text"]: KeyError outside the try
             /\ pc' = "audio_raised"
             /\ UNCHANGED audioVars
        ELSE /\ pc' = "audio_line"
             /\ audioLine' = idx
             /\ IF ~CharacterKnown(characters_by_id, sp)
                   \/ ResolveVoice(importDir, characters_by_id[sp.n]).exc # NoExc
                THEN UNCHANGED <<line_audio_metadata, combined_audio, ttsCalls>>
                ELSE LET speaker == ResolveVoice(importDir, characters_by_id[sp.n]).speaker
                     IN /\ ttsCalls' = Append(ttsCalls,
                               [line |-> idx, character |-> sp.n, speaker |-> speaker])
                        /\ \/ \* tts_to_file or from_wav raises: except, continue
                              UNCHANGED <<line_audio_metadata, combined_audio>>
                           \/ \E d \in ClipDurations :
                                /\ combined_audio' = Concat(combined_audio, Clip(idx, d))
                                /\ line_audio_metadata' =
                                     Append(line_audio_metadata,
                                            [path |-> idx, duration_ms |-> d,
                                             speaker_id |-> sp])
  /\ UNCHANGED <<envVars, schedVars, cycle, trace, raisedBy, logged, pending, escaped,
                 castVars, uploadVars, postVars, swallowed, characters_by_id,
                 subVars, ioVars>>

\* lines 151-153: export of the master track, return
AudioExport ==
  /\ pc = "audio_line"
  /\ audioLine = Len(script)
  /\ \/ pc' = "audio_returned"
     \/ pc' = "audio_raised"
  /\ UNCHANGED <<envVars, schedVars, cycle, trace, raisedBy, logged, pending, escaped,
                 castVars, uploadVars, postVars, swallowed, engineVars>>

\* ------------------------------------------------- subtitle_engine.py
\* A time t is carried as the number 2000 * t of half-milliseconds, so that
\* `seconds * 1000.0` is the number h / 2: whole or exactly halfway.

\* Python's round() of h / 2: to the nearest integer, a tie to the even one
PyRound(h) ==
  LET q == h \div 2
  IN IF h % 2 = 0 THEN q ELSE IF q % 2 = 0 THEN q ELSE q + 1

\* the decimal digits of n, left-padded with zeros to the width w (`{n:0wd}`)
RECURSIVE Pad(_, _)
Pad(n, w) ==
  IF n < 10 /\ w <= 1 THEN <<n>>
  ELSE Append(Pad(n \div 10, w - 1), n % 10)

\* variant: the fields are cut from the truncated time and only the
\* millisecond field is rounded
FormatTimestamp_NoCarry(h) ==
  LET whole == h \div 2
  IN [hours |-> Pad(whole \div 3600000, 2),
      minutes |-> Pad((whole % 3600000) \div 60000, 2),
      seconds |-> Pad((whole % 60000) \div 1000, 2),
      milliseconds |-> Pad((whole % 1000) + (PyRound(h) - whole), 3)]

\* _format_timestamp(seconds): the four fields of "HH:MM:SS,mmm"
FormatTimestamp(h) ==
  LET milliseconds == PyRound(h)
      hours == milliseconds \div 3600000
      ms1 == milliseconds % 3600000
      minutes == ms1 \div 60000
      ms2 == ms1 % 60000
      seconds == ms2 \div 1000
      ms3 == ms2 % 1000
  IN [hours |-> Pad(hours, 2), minutes |-> Pad(minutes, 2),
      seconds |-> Pad(seconds, 2), milliseconds |-> Pad(ms3, 3)]

\* times around the rollover of each field, in half-milliseconds
TimestampSamples ==
  (0..4) \cup (1998..2001) \cup (119998..120000) \cup (7199998..7200000)
    \cup (7322400..7322402)

\* a word or segment span returned by the transcription
SpanSamples == {[start |-> a, end |-> a + d] : a \in TimestampSamples, d \in {1, 2}}

Transcriptions ==
  {[words |-> w, segments |-> <<>>] : w \in SeqsUpTo(SpanSamples, MaxWords)}
    \cup {[words |-> <<>>, segments |-> <<g>>] : g \in SpanSamples}

\* one cue of the subtitle file: counter line, time line, text line
Cue(number, span, text) ==
  [number |-> number, start |-> FormatTimestamp(span.start),
   end |-> FormatTimestamp(span.end), text |-> text]

\* variant: the cue counter is not advanced
NextCounter_Stuck(counter) == counter

\* `srt_counter += 1`
NextCounter(counter) == counter + 1

\* lines 65-80: the transcription request, then the opening of the output file
Transcribe ==
  /\ pc = "subs_request"
  /\ \/ /\ \E t \in Transcriptions : transcription' = t
        /\ pc' = "subs_write"
     \/ /\ pc' = "subs_raised"
        /\ UNCHANGED transcription
  /\ srt_file' = <<>>
  /\ srt_counter' = 1
  /\ UNCHANGED <<envVars, schedVars, cycle, trace, raisedBy, logged, pending, escaped,
                 castVars, uploadVars, postVars, swallowed, characters_by_id,
                 audioVars, ioVars>>

\* lines 96-104: one iteration of `for word in transcription.words`
WriteWordCue ==
  /\ pc = "subs_write"
  /\ transcription.words # <<>>
  /\ Len(srt_file) < Len(transcription.words)
  /\ LET k == Len(srt_file) + 1
     IN srt_file' = Append(srt_file, Cue(srt_counter, transcription.words[k], k))
  /\ srt_counter' = NextCounter(srt_counter)
  /\ UNCHANGED <<envVars, schedVars, cycleVars, castVars, uploadVars, postVars, swallowed,
                 characters_by_id, audioVars, ioVars, transcription>>

\* lines 82-93: no word spans, one cue per segment
WriteSegmentCues ==
  /\ pc = "subs_write"
  /\ transcription.words = <<>>
  /\ srt_file' = [k \in 1..Len(transcription.segments) |->
                    Cue(k, transcription.segments[k], k)]
  /\ srt_counter' = Len(transcription.segments) + 1
  /\ pc' = "subs_returned"
  /\ UNCHANGED <<envVars, schedVars, cycle, trace, raisedBy, logged, pending, escaped,
                 castVars, uploadVars, postVars, swallowed, characters_by_id,
                 audioVars, ioVars, transcription>>

\* lines 106-107: the word loop is over, the file is closed
SubtitlesReturn ==
  /\ pc = "subs_write"
  /\ transcription.words # <<>>
  /\ Len(srt_file) = Len(transcription.words)
  /\ pc' = "subs_returned"
  /\ UNCHANGED <<envVars, schedVars, cycle, trace, raisedBy, logged, pending, escaped,
                 castVars, uploadVars, postVars, swallowed, engineVars>>

\* ------------------------------------------------ storage_manager.py
Absent == "absent"

PathOf(kind, ep, n) == [kind |-> kind, ep |-> ep, n |-> n]

\* lines 34-37: config.<X>_DIR / show_id
ShowDir(kind, id) == PathOf(kind, id, 0)

\* variant: the file name is built from a fixed id, not from self.show_id
MasterFile_First(kind, id) == PathOf(kind, 1, 0)

\* lines 102-104: master_audio_<id>.wav, final_show_video_<id>.mp4,
\* subtitles_<id>.srt in the shared directories
MasterFile(kind, id) == PathOf(kind, id, 0)

\* lines 40-41: TEMP_DIR/background.mp4 and TEMP_DIR/background.mp3
BackgroundVideo == PathOf("background_video", 0, 0)

BackgroundMusic == PathOf("background_music", 0, 0)

CachePaths == {BackgroundVideo, BackgroundMusic}

\* voice_engine.py line 106: show_audio_dir / line_<i>_<speaker>.wav
LinePath(id) == PathOf("line_audio", id, 0)

\* video_engine.py line 156: show_parts_dir / part_<n>.mp4
PartPath(id, n) == PathOf("part", id, n)

\* every path an episode writes
EpisodePaths(id) ==
  {ShowDir(k, id) : k \in {"show_audio_dir", "show_subtitles_dir",
                           "show_video_dir", "show_parts_dir"}}
  \cup {MasterFile(k, id) : k \in {"master_audio", "master_video", "final_subs"}}
  \cup {LinePath(id)} \cup {PartPath(id, n) : n \in 1..MaxParts}

AllPaths == CachePaths \cup UNION {EpisodePaths(id) : id \in 1..MaxCycles}

EmptyTree == [p \in AllPaths |-> Absent]

\* path p lies in directory d
Inside(p, d) ==
  \/ p.kind = "line_audio" /\ d = ShowDir("show_audio_dir", p.ep)
  \/ p.kind = "part" /\ d = ShowDir("show_parts_dir", p.ep)

\* lines 122-138, _safe_delete: a path that does not exist is left alone;
\* rmtree / os.remove delete it; a deletion error is caught, the path stays
\* (a directory possibly without its contents)
SafeDelete(files, path, outcome) ==
  IF files[path] = Absent THEN files
  ELSE [p \in DOMAIN files |->
          CASE outcome = "deleted" /\ (p = path \/ Inside(p, path)) -> Absent
            [] outcome = "failed_emptied" /\ Inside(p, path) -> Absent
            [] OTHER -> files[p]]

DeleteOutcomes == {"deleted", "failed", "failed_emptied"}

\* variant: only the show directories are deleted
CleanupPaths_DirsOnly(id) ==
  <<ShowDir("show_audio_dir", id), ShowDir("show_subtitles_dir", id),
    ShowDir("show_video_dir", id), ShowDir("show_parts_dir", id)>>

\* lines 91-108: the four show directories, then the three master files
CleanupPaths(id) ==
  <<ShowDir("show_audio_dir", id), ShowDir("show_subtitles_dir", id),
    ShowDir("show_video_dir", id), ShowDir("show_parts_dir", id),
    MasterFile("master_audio", id), MasterFile("master_video", id),
    MasterFile("final_subs", id)>>

\* the prefix of paths that ends with the first one whose deletion fails
RECURSIVE UntilFailure(_, _)
UntilFailure(paths, out) ==
  IF paths = <<>> THEN <<>>
  ELSE IF out[Head(paths)] # "deleted" THEN <<Head(paths)>>
  ELSE <<Head(paths)>> \o UntilFailure(Tail(paths), out)

\* variant: the first deletion error ends cleanup_show_media
Attempted_UntilFailure(paths, out) == UntilFailure(paths, out)

\* lines 98-99 and 106-108: _safe_delete is called for every path, whatever
\* the earlier calls met
Attempted(paths, out) == paths

RECURSIVE DeleteAll(_, _, _)
DeleteAll(files, paths, out) ==
  IF paths = <<>> THEN files
  ELSE DeleteAll(SafeDelete(files, Head(paths), out[Head(paths)]), Tail(paths), out)

\* the ways the deletions of one cleanup_show_media can go: at most `budget`
\* of the paths that exist meet an error
CleanupOutcomes(files, paths, budget) ==
  {[p \in Range(paths) |-> IF p = bad THEN mode ELSE "deleted"] :
     bad \in {q \in Range(paths) : budget > 0 /\ files[q] # Absent},
     mode \in {"failed", "failed_emptied"}}
  \cup {[p \in Range(paths) |-> "deleted"]}

\* variant: the file is fetched whether or not it is already there
Fetches_Always(files, path) == TRUE

\* lines 67-69: whether _download_file issues requests.get
Fetches(files, path) == files[path] = Absent

\* lines 65-81, _download_file: an existing file is kept and nothing is
\* fetched; else the response is streamed into the file
DownloadFile(files, path, response) ==
  IF ~Fetches(files, path) THEN files
  ELSE [files EXCEPT ![path] =
          CASE response = "ok" -> "complete"
            [] response = "stream_error" -> "partial"
            [] OTHER -> files[path]]

\* lines 79-81: the IOError of _download_file
DownloadFileRaises(files, path, response) ==
  IF Fetches(files, path) /\ response # "ok" THEN "IOError" ELSE NoExc

\* what a request meets: a complete body, a non-2xx status or connection
\* error before the file is opened, a connection lost while streaming
Responses == {"ok", "http_error", "stream_error"}

storageFrame == <<envVars, schedVars, trace, raisedBy, logged, pending, castVars,
                  uploadVars, postLog, postPending, swallowed, characters_by_id,
                  audioVars, subVars, splitVars, timeVars>>

\* scheduler.py lines 61-67: a new show_id, StorageManager(show_id)
StorageStart ==
  /\ pc \in {"st_idle", "st_returned"}
  /\ cycle < MaxCycles
  /\ cycle' = cycle + 1
  /\ pc' = "st_create_dirs"
  /\ total_parts' = 0 /\ i' = 0
  /\ attempted' = <<>> /\ delFailed' = {}
  /\ escaped' = NoExc
  /\ UNCHANGED <<storageFrame, fs, downloads, deleteFailures>>

\* lines 43-54: create_show_directories
StorageCreateDirs ==
  /\ pc = "st_create_dirs"
  /\ \/ /\ fs' = [p \in AllPaths |->
                   IF p \in {ShowDir(k, cycle) :
                               k \in {"show_audio_dir", "show_subtitles_dir",
                                      "show_video_dir", "show_parts_dir"}}
                   THEN "dir" ELSE fs[p]]
        /\ pc' = "st_download"
     \/ \* mkdir raises OSError
        /\ pc' = "st_cleanup"
        /\ UNCHANGED fs
  /\ UNCHANGED <<storageFrame, cycle, escaped, total_parts, i, downloads,
                 attempted, delFailed, deleteFailures>>

\* lines 56-63: download_background_media, the video and then the music
StorageDownload ==
  /\ pc = "st_download"
  /\ \E rv \in Responses, rm \in Responses :
       LET afterVideo == DownloadFile(fs, BackgroundVideo, rv)
           videoExc == DownloadFileRaises(fs, BackgroundVideo, rv)
           afterMusic == DownloadFile(afterVideo, BackgroundMusic, rm)
           musicExc == DownloadFileRaises(afterVideo, BackgroundMusic, rm)
           fetched == {p \in {BackgroundVideo} : Fetches(fs, p)}
                      \cup {p \in {BackgroundMusic} :
                              videoExc = NoExc /\ Fetches(afterVideo, p)}
       IN /\ fs' = IF videoExc = NoExc THEN afterMusic ELSE afterVideo
          /\ downloads' = Append(downloads,
                 [fetched |-> fetched,
                  ok |-> (videoExc = NoExc /\ musicExc = NoExc),
                  changed |-> {p \in CachePaths : fs'[p] # fs[p]}])
          /\ pc' = IF videoExc = NoExc /\ musicExc = NoExc
                   THEN "st_audio" ELSE "st_cleanup"
  /\ UNCHANGED <<storageFrame, cycle, escaped, total_parts, i,
                 attempted, delFailed, deleteFailures>>

\* voice_engine.py lines 95-153: the line clips, then the master track
StorageWriteAudio ==
  /\ pc = "st_audio"
  /\ \/ /\ fs' = [fs EXCEPT ![ShowDir("show_audio_dir", cycle)] = "dir",
                            ![LinePath(cycle)] = "file",
                            ![MasterFile("master_audio", cycle)] = "file"]
        /\ pc' = "st_subtitles"
     \/ \* the export of the master track raises
        /\ fs' = [fs EXCEPT ![ShowDir("show_audio_dir", cycle)] = "dir",
                            ![LinePath(cycle)] = "file"]
        /\ pc' = "st_cleanup"
  /\ UNCHANGED <<storageFrame, cycle, escaped, total_parts, i, downloads,
                 attempted, delFailed, deleteFailures>>

\* subtitle_engine.py line 63: subtitles_<id>.srt
StorageWriteSubtitles ==
  /\ pc = "st_subtitles"
  /\ \/ /\ fs' = [fs EXCEPT ![MasterFile("final_subs", cycle)] = "file"]
        /\ pc' = "st_video"
     \/ /\ pc' = "st_cleanup"
        /\ UNCHANGED fs
  /\ UNCHANGED <<storageFrame, cycle, escaped, total_parts, i, downloads,
                 attempted, delFailed, deleteFailures>>

\* video_engine.py line 69: final_show_video_<id>.mp4
StorageWriteVideo ==
  /\ pc = "st_video"
  /\ \/ /\ fs' = [fs EXCEPT ![MasterFile("master_video", cycle)] = "file"]
        /\ pc' = "st_split"
     \/ /\ pc' = "st_cleanup"
        /\ UNCHANGED fs
  /\ UNCHANGED <<storageFrame, cycle, escaped, total_parts, i, downloads,
                 attempted, delFailed, deleteFailures>>

\* video_engine.py lines 154-167: part_1.mp4 ... part_n.mp4; scheduler.py
\* lines 92-99: no parts, or an error, ends the cycle
StorageWriteParts ==
  /\ pc = "st_split"
  /\ \E nparts \in PartCounts, raised \in BOOLEAN :
       /\ fs' = [p \in AllPaths |->
                   IF p \in {PartPath(cycle, n) : n \in 1..nparts}
                   THEN "file" ELSE fs[p]]
       /\ total_parts' = nparts
       /\ pc' = IF raised \/ nparts = 0 THEN "st_cleanup" ELSE "st_release"
  /\ i' = 0
  /\ UNCHANGED <<storageFrame, cycle, escaped, downloads,
                 attempted, delFailed, deleteFailures>>

\* lines 112-120: cleanup_posted_part, called by post_all_parts for each part
StorageReleasePart ==
  /\ pc = "st_release"
  /\ i < total_parts
  /\ \E outcome \in DeleteOutcomes :
       /\ outcome # "deleted" => deleteFailures < MaxDeleteFailures
       /\ outcome # "failed_emptied"
       /\ fs' = SafeDelete(fs, PartPath(cycle, i + 1), outcome)
       /\ deleteFailures' = IF outcome = "deleted" THEN deleteFailures
                            ELSE deleteFailures + 1
  /\ i' = i + 1
  /\ pc' = IF i + 1 = total_parts THEN "st_cleanup" ELSE "st_release"
  /\ UNCHANGED <<storageFrame, cycle, escaped, total_parts, downloads,
                 attempted, delFailed>>

\* lines 83-110: cleanup_show_media
StorageCleanup ==
  /\ pc = "st_cleanup"
  /\ \E out \in CleanupOutcomes(fs, CleanupPaths(cycle),
                               MaxDeleteFailures - deleteFailures) :
       LET failed == {p \in Range(CleanupPaths(cycle)) : out[p] # "deleted"}
       IN /\ attempted' = Attempted(CleanupPaths(cycle), out)
          /\ fs' = DeleteAll(fs, attempted', out)
          /\ delFailed' = failed
          /\ deleteFailures' = deleteFailures + Cardinality(failed)
          /\ escaped' = IF failed = {} THEN NoExc ELSE SafeDeleteRaises("OSError")
  /\ pc' = "st_returned"
  /\ UNCHANGED <<storageFrame, cycle, total_parts, i, downloads>>

\* ------------------------------------------ scheduler.py: start_scheduler
\* Time is counted in half seconds, so that two instants of one second differ.

\* line 61: datetime.now().strftime("%Y%m%d_%H%M%S"), the time cut to the second
ShowId(t) == t \div 2

\* variant: the job is due again at once
NextRun_Immediately(t) == t

\* schedule.every(SHOW_INTERVAL_SECONDS).seconds: next_run of the job, set
\* when it is scheduled and again each time it has run
NextRun(t) == t + 2 * SHOW_INTERVAL_SECONDS

\* how long a cycle takes: less than a second, a second, longer than the interval
CycleDurations == {1, 2, 2 * SHOW_INTERVAL_SECONDS + 1}

\* variant: the handler of the loop ends the loop
AfterPause_Exit == "sch_exited"

\* lines 136-139: after the pause the `while True` loop goes on
AfterPause == "sch_loop"

schedulerFrame == <<envVars, schedVars, trace, raisedBy, logged, pending, escaped,
                    castVars, uploadVars, postVars, swallowed, characters_by_id,
                    audioVars, subVars, splitVars, storeVars>>

\* line 123: schedule.every(...).seconds.do(run_show_cycle)
SchedulerSchedule ==
  /\ pc = "sch_boot"
  /\ next_run' = NextRun(clock)
  /\ pc' = "sch_first"
  /\ UNCHANGED <<schedulerFrame, cycle, clock, show_ids, loopErrors>>

\* line 127: the first run_show_cycle()
SchedulerFirstCycle ==
  /\ pc = "sch_first"
  /\ cycle' = cycle + 1
  /\ show_ids' = Append(show_ids, ShowId(clock))
  /\ \E d \in CycleDurations : clock' = clock + d
  /\ pc' = "sch_loop"
  /\ UNCHANGED <<schedulerFrame, next_run, loopErrors>>

\* lines 131-132: run_pending() runs the job when it is due and sets its
\* next_run, then time.sleep(1); the iterations that find the job not due
\* are taken together
SchedulerRunPending ==
  /\ pc = "sch_loop"
  /\ IF clock >= next_run
     THEN /\ cycle < MaxCycles
          /\ cycle' = cycle + 1
          /\ show_ids' = Append(show_ids, ShowId(clock))
          /\ \E d \in CycleDurations :
               /\ next_run' = NextRun(clock + d)
               /\ clock' = clock + d + 2
     ELSE /\ clock' = next_run
          /\ UNCHANGED <<cycle, show_ids, next_run>>
  /\ pc' = "sch_loop"
  /\ UNCHANGED <<schedulerFrame, loopErrors>>

\* lines 136-137: an Exception raised inside the loop is caught and logged
SchedulerLoopError ==
  /\ pc = "sch_loop"
  /\ loopErrors < MaxLoopErrors
  /\ loopErrors' = loopErrors + 1
  /\ pc' = "sch_paused"
  /\ UNCHANGED <<schedulerFrame, cycle, clock, next_run, show_ids>>

\* line 139: time.sleep(60), then the next iteration
SchedulerResume ==
  /\ pc = "sch_paused"
  /\ clock' = clock + 2 * LoopPauseSeconds
  /\ pc' = AfterPause
  /\ UNCHANGED <<schedulerFrame, cycle, next_run, show_ids, loopErrors>>

\* lines 133-135: KeyboardInterrupt ends the loop (or the process)
SchedulerInterrupt ==
  /\ pc \in {"sch_first", "sch_loop", "sch_paused"}
  /\ pc' = "sch_interrupted"
  /\ UNCHANGED <<schedulerFrame, cycle, timeVars>>

\* ---------------------------------------------------------- specification
Init ==
  /\ importDir \in {"root", "podcast_bot"}
  /\ is_configured \in BOOLEAN
  /\ max_retries = DefaultMaxRetries
  /\ cycle = 0
  /\ pc = "idle"
  /\ trace = <<>>
  /\ raisedBy = NoExc /\ logged = NoExc /\ pending = NoExc /\ escaped = NoExc
  /\ hosts = <<>> /\ guests = <<>> /\ script = <<>>
  /\ receivedBad = FALSE /\ receivedEmpty = FALSE
  /\ total_parts = 0 /\ i = 0 /\ postLog = <<>>
  /\ postPending = NoExc
  /\ attempt = 0 /\ attemptsMade = 0 /\ delays = <<>> /\ upExc = NoExc
  /\ caption = <<>> /\ requests = <<>> /\ upload_session_id = 0 /\ published = 0
  /\ init_response = NoResponse /\ transfer_response = NoResponse
  /\ finish_response = NoResponse
  /\ swallowed = FALSE
  /\ characters_by_id = LoadedRoster(importDir)
  /\ audioLine = 0 /\ line_audio_metadata = <<>> /\ combined_audio = <<>>
  /\ ttsCalls = <<>>
  /\ transcription = NoTranscription /\ srt_file = <<>> /\ srt_counter = 1
  /\ video_duration = 0 /\ part_paths = <<>>
  /\ prevWaited = FALSE /\ fetchFailed = FALSE
  /\ fs = EmptyTree /\ downloads = <<>>
  /\ attempted = <<>> /\ delFailed = {} /\ deleteFailures = 0
  /\ clock = 0 /\ next_run = 0 /\ show_ids = <<>> /\ loopErrors = 0

Next ==
  \/ StartCycle
  \/ CreateShowDirectories
  \/ DownloadBackgroundMedia
  \/ SelectShowParticipants
  \/ GenerateScript
  \/ GenerateShowAudio
  \/ GenerateSubtitles
  \/ AssembleVideo
  \/ SplitVideoIntoParts
  \/ PostAllParts
  \/ UploadBegin
  \/ PhaseStart
  \/ PhaseTransfer
  \/ PhaseFinish
  \/ Backoff
  \/ UploadExit
  \/ PostRelease
  \/ PostSleep
  \/ CleanupShowMedia

Spec == Init /\ [][Next]_vars

\* _upload_to_facebook(video_path, caption, max_retries) called for the only
\* part of an episode, for every retry budget
InitUpload ==
  /\ importDir = "root"
  /\ is_configured = TRUE
  /\ max_retries \in 1..MaxRetryBudget
  /\ cycle = 1
  /\ pc = "upload_stat"
  /\ trace = CycleSteps
  /\ raisedBy = NoExc /\ logged = NoExc /\ pending = NoExc /\ escaped = NoExc
  /\ hosts = <<1>> /\ guests = <<GuestId>>
  /\ script = <<Line(IntId(1), AllKeys)>>
  /\ receivedBad = FALSE /\ receivedEmpty = FALSE
  /\ total_parts = 1 /\ i = 0 /\ postLog = <<>>
  /\ postPending = NoExc
  /\ attempt = 0 /\ attemptsMade = 0 /\ delays = <<>> /\ upExc = NoExc
  /\ caption = <<>> /\ requests = <<>> /\ upload_session_id = 0 /\ published = 0
  /\ init_response = NoResponse /\ transfer_response = NoResponse
  /\ finish_response = NoResponse
  /\ swallowed = FALSE
  /\ characters_by_id = WithGuest(StaticHosts, 1)
  /\ audioLine = 0 /\ line_audio_metadata = <<>> /\ combined_audio = <<>>
  /\ ttsCalls = <<>>
  /\ transcription = NoTranscription /\ srt_file = <<>> /\ srt_counter = 1
  /\ video_duration = 0 /\ part_paths = <<>>
  /\ prevWaited = FALSE /\ fetchFailed = FALSE
  /\ fs = EmptyTree /\ downloads = <<>>
  /\ attempted = <<>> /\ delFailed = {} /\ deleteFailures = 0
  /\ clock = 0 /\ next_run = 0 /\ show_ids = <<>> /\ loopErrors = 0

\* generate_show_audio called by run_show_cycle with the script that
\* generate_script returned for the selected cast
InitAudio ==
  /\ importDir \in {"root", "podcast_bot"}
  /\ is_configured = TRUE
  /\ max_retries = DefaultMaxRetries
  /\ cycle = 1
  /\ pc = "audio_line"
  /\ trace = SubSeq(CycleSteps, 1, StepIndex("generate_show_audio"))
  /\ raisedBy = NoExc /\ logged = NoExc /\ pending = NoExc /\ escaped = NoExc
  /\ \E c \in Casts(importDir) :
       /\ hosts = c.hosts /\ guests = c.guests
       /\ characters_by_id \in
            IF importDir = "root"
            THEN {WithGuest(StaticHosts, c.hosts[1])}
            ELSE {PodcastRoster(v) : v \in AVAILABLE_VOICES}
       /\ \E raw \in Scripts :
            LET res == GenerateScriptResult(importDir, raw, c.hosts, c.guests)
            IN /\ res.exc = NoExc
               /\ EmptyScriptCheck(res.script) = NoExc
               /\ script = res.script
               /\ receivedBad = HasInvalidLine(raw, Range(c.hosts) \cup Range(c.guests))
  /\ receivedEmpty = FALSE
  /\ total_parts = 0 /\ i = 0 /\ postLog = <<>>
  /\ postPending = NoExc
  /\ attempt = 0 /\ attemptsMade = 0 /\ delays = <<>> /\ upExc = NoExc
  /\ caption = <<>> /\ requests = <<>> /\ upload_session_id = 0 /\ published = 0
  /\ init_response = NoResponse /\ transfer_response = NoResponse
  /\ finish_response = NoResponse
  /\ swallowed = FALSE
  /\ audioLine = 0 /\ line_audio_metadata = <<>> /\ combined_audio = <<>>
  /\ ttsCalls = <<>>
  /\ transcription = NoTranscription /\ srt_file = <<>> /\ srt_counter = 1
  /\ video_duration = 0 /\ part_paths = <<>>
  /\ prevWaited = FALSE /\ fetchFailed = FALSE
  /\ fs = EmptyTree /\ downloads = <<>>
  /\ attempted = <<>> /\ delFailed = {} /\ deleteFailures = 0
  /\ clock = 0 /\ next_run = 0 /\ show_ids = <<>> /\ loopErrors = 0

NextAudio ==
  \/ AudioLine
  \/ AudioExport

SpecAudio == InitAudio /\ [][NextAudio]_vars

\* generate_subtitles called by run_show_cycle on the master track
InitSubtitles ==
  /\ importDir \in {"root", "podcast_bot"}
  /\ is_configured = TRUE
  /\ max_retries = DefaultMaxRetries
  /\ cycle = 1
  /\ pc = "subs_request"
  /\ trace = SubSeq(CycleSteps, 1, StepIndex("generate_subtitles"))
  /\ raisedBy = NoExc /\ logged = NoExc /\ pending = NoExc /\ escaped = NoExc
  /\ hosts = <<1>> /\ guests = <<GuestId>> /\ script = <<>>
  /\ receivedBad = FALSE /\ receivedEmpty = FALSE
  /\ total_parts = 0 /\ i = 0 /\ postLog = <<>>
  /\ postPending = NoExc
  /\ attempt = 0 /\ attemptsMade = 0 /\ delays = <<>> /\ upExc = NoExc
  /\ caption = <<>> /\ requests = <<>> /\ upload_session_id = 0 /\ published = 0
  /\ init_response = NoResponse /\ transfer_response = NoResponse
  /\ finish_response = NoResponse
  /\ swallowed = FALSE
  /\ characters_by_id = IF importDir = "root" THEN WithGuest(StaticHosts, 1)
                        ELSE LoadedRoster(importDir)
  /\ audioLine = 0 /\ line_audio_metadata = <<>> /\ combined_audio = <<>>
  /\ ttsCalls = <<>>
  /\ transcription = NoTranscription /\ srt_file = <<>> /\ srt_counter = 1
  /\ video_duration = 0 /\ part_paths = <<>>
  /\ prevWaited = FALSE /\ fetchFailed = FALSE
  /\ fs = EmptyTree /\ downloads = <<>>
  /\ attempted = <<>> /\ delFailed = {} /\ deleteFailures = 0
  /\ clock = 0 /\ next_run = 0 /\ show_ids = <<>> /\ loopErrors = 0

NextSubtitles ==
  \/ Transcribe
  \/ WriteWordCue
  \/ WriteSegmentCues
  \/ SubtitlesReturn

SpecSubtitles == InitSubtitles /\ [][NextSubtitles]_vars

\* split_video_into_parts called by run_show_cycle on the final video
InitSplit ==
  /\ importDir \in {"root", "podcast_bot"}
  /\ is_configured = TRUE
  /\ max_retries = DefaultMaxRetries
  /\ cycle = 1
  /\ pc = "split_loop"
  /\ trace = SubSeq(CycleSteps, 1, StepIndex("split_video_into_parts"))
  /\ raisedBy = NoExc /\ logged = NoExc /\ pending = NoExc /\ escaped = NoExc
  /\ hosts = <<1>> /\ guests = <<GuestId>> /\ script = <<>>
  /\ receivedBad = FALSE /\ receivedEmpty = FALSE
  /\ total_parts = 0 /\ i = 0 /\ postLog = <<>>
  /\ postPending = NoExc
  /\ attempt = 0 /\ attemptsMade = 0 /\ delays = <<>> /\ upExc = NoExc
  /\ caption = <<>> /\ requests = <<>> /\ upload_session_id = 0 /\ published = 0
  /\ init_response = NoResponse /\ transfer_response = NoResponse
  /\ finish_response = NoResponse
  /\ swallowed = FALSE
  /\ characters_by_id = IF importDir = "root" THEN WithGuest(StaticHosts, 1)
                        ELSE LoadedRoster(importDir)
  /\ audioLine = 0 /\ line_audio_metadata = <<>> /\ combined_audio = <<>>
  /\ ttsCalls = <<>>
  /\ transcription = NoTranscription /\ srt_file = <<>> /\ srt_counter = 1
  /\ video_duration \in VideoDurations /\ part_paths = <<>>
  /\ prevWaited = FALSE /\ fetchFailed = FALSE
  /\ fs = EmptyTree /\ downloads = <<>>
  /\ attempted = <<>> /\ delFailed = {} /\ deleteFailures = 0
  /\ clock = 0 /\ next_run = 0 /\ show_ids = <<>> /\ loopErrors = 0

NextSplit ==
  \/ SplitCut
  \/ SplitReturn

SpecSplit == InitSplit /\ [][NextSplit]_vars

\* the temp tree over successive cycles, from a fresh installation
InitStorage ==
  /\ importDir \in {"root", "podcast_bot"}
  /\ is_configured = TRUE
  /\ max_retries = DefaultMaxRetries
  /\ cycle = 0
  /\ pc = "st_idle"
  /\ trace = <<>>
  /\ raisedBy = NoExc /\ logged = NoExc /\ pending = NoExc /\ escaped = NoExc
  /\ hosts = <<>> /\ guests = <<>> /\ script = <<>>
  /\ receivedBad = FALSE /\ receivedEmpty = FALSE
  /\ total_parts = 0 /\ i = 0 /\ postLog = <<>>
  /\ postPending = NoExc
  /\ attempt = 0 /\ attemptsMade = 0 /\ delays = <<>> /\ upExc = NoExc
  /\ caption = <<>> /\ requests = <<>> /\ upload_session_id = 0 /\ published = 0
  /\ init_response = NoResponse /\ transfer_response = NoResponse
  /\ finish_response = NoResponse
  /\ swallowed = FALSE
  /\ characters_by_id = LoadedRoster(importDir)
  /\ audioLine = 0 /\ line_audio_metadata = <<>> /\ combined_audio = <<>>
  /\ ttsCalls = <<>>
  /\ transcription = NoTranscription /\ srt_file = <<>> /\ srt_counter = 1
  /\ video_duration = 0 /\ part_paths = <<>>
  /\ prevWaited = FALSE /\ fetchFailed = FALSE
  /\ fs = EmptyTree /\ downloads = <<>>
  /\ attempted = <<>> /\ delFailed = {} /\ deleteFailures = 0
  /\ clock = 0 /\ next_run = 0 /\ show_ids = <<>> /\ loopErrors = 0

NextStorage ==
  \/ StorageStart
  \/ StorageCreateDirs
  \/ StorageDownload
  \/ StorageWriteAudio
  \/ StorageWriteSubtitles
  \/ StorageWriteVideo
  \/ StorageWriteParts
  \/ StorageReleasePart
  \/ StorageCleanup

SpecStorage == InitStorage /\ [][NextStorage]_vars

\* start_scheduler from process start
InitScheduler ==
  /\ importDir \in {"root", "podcast_bot"}
  /\ is_configured \in BOOLEAN
  /\ max_retries = DefaultMaxRetries
  /\ cycle = 0
  /\ pc = "sch_boot"
  /\ trace = <<>>
  /\ raisedBy = NoExc /\ logged = NoExc /\ pending = NoExc /\ escaped = NoExc
  /\ hosts = <<>> /\ guests = <<>> /\ script = <<>>
  /\ receivedBad = FALSE /\ receivedEmpty = FALSE
  /\ total_parts = 0 /\ i = 0 /\ postLog = <<>>
  /\ postPending = NoExc
  /\ attempt = 0 /\ attemptsMade = 0 /\ delays = <<>> /\ upExc = NoExc
  /\ caption = <<>> /\ requests = <<>> /\ upload_session_id = 0 /\ published = 0
  /\ init_response = NoResponse /\ transfer_response = NoResponse
  /\ finish_response = NoResponse
  /\ swallowed = FALSE
  /\ characters_by_id = LoadedRoster(importDir)
  /\ audioLine = 0 /\ line_audio_metadata = <<>> /\ combined_audio = <<>>
  /\ ttsCalls = <<>>
  /\ transcription = NoTranscription /\ srt_file = <<>> /\ srt_counter = 1
  /\ video_duration = 0 /\ part_paths = <<>>
  /\ prevWaited = FALSE /\ fetchFailed = FALSE
  /\ fs = EmptyTree /\ downloads = <<>>
  /\ attempted = <<>> /\ delFailed = {} /\ deleteFailures = 0
  /\ clock = 0 /\ next_run = 0 /\ show_ids = <<>> /\ loopErrors = 0

NextScheduler ==
  \/ SchedulerSchedule
  \/ SchedulerFirstCycle
  \/ SchedulerRunPending
  \/ SchedulerLoopError
  \/ SchedulerResume
  \/ SchedulerInterrupt

SpecScheduler == InitScheduler /\ [][NextScheduler]_vars

\* every call made by the single thread of start_scheduler returns
SpecSchedulerFair ==
  /\ SpecScheduler
  /\ WF_vars(SchedulerSchedule)
  /\ WF_vars(SchedulerFirstCycle)
  /\ WF_vars(SchedulerRunPending)
  /\ WF_vars(SchedulerResume)

NextUpload ==
  \/ UploadBegin
  \/ PhaseStart
  \/ PhaseTransfer
  \/ PhaseFinish
  \/ Backoff

SpecUpload == InitUpload /\ [][NextUpload]_vars

TypeOK ==
  /\ pc \in {"idle", "returned", "cleanup_show_media", "upload_stat",
             "upload_start", "upload_transfer", "upload_finish",
             "upload_backoff", "upload_returned", "upload_raised",
             "post_release", "post_sleep", "audio_line", "audio_returned",
             "audio_raised", "split_loop", "split_returned", "split_raised",
             "st_idle", "st_create_dirs", "st_download", "st_audio",
             "st_subtitles", "st_video", "st_split", "st_release",
             "st_cleanup", "st_returned", "sch_boot", "sch_first", "sch_loop",
             "sch_paused", "sch_interrupted", "sch_exited",
             "subs_request", "subs_write", "subs_returned",
             "subs_raised"} \cup Range(CycleSteps)
  /\ cycle \in 0..MaxCycles
  /\ total_parts \in 0..MaxParts
  /\ attempt \in 0..MaxRetryBudget

\* ======================================================== verified claims
InCycle == pc \notin {"idle", "returned"}

CycleStep ==
  \/ CreateShowDirectories \/ DownloadBackgroundMedia \/ SelectShowParticipants
  \/ GenerateScript \/ GenerateShowAudio \/ GenerateSubtitles \/ AssembleVideo
  \/ SplitVideoIntoParts \/ PostAllParts \/ UploadBegin \/ PhaseStart
  \/ PhaseTransfer \/ PhaseFinish \/ Backoff \/ UploadExit \/ PostRelease
  \/ PostSleep \/ CleanupShowMedia

Occurrences(seq, x) == Cardinality({k \in 1..Len(seq) : seq[k] = x})

\* the statements of the try body entered so far, in order
BodyTrace == SelectSeq(trace, LAMBDA st : st # "cleanup_show_media")

ProductionSteps == {"generate_show_audio", "generate_subtitles", "assemble_video",
                    "split_video_into_parts", "post_all_parts"}

PostEnded ==
  /\ "post_all_parts" \in Range(trace)
  /\ pc \in {"cleanup_show_media", "returned"}

\* C1: every cycle, whatever stage fails or succeeds and also on the early
\* return after a split into zero parts, runs cleanup_show_media exactly once,
\* as its last step: a running cycle can always take a step, cleanup has not
\* run before the cycle reaches its finally block, and a returned cycle has
\* cleanup as the last and only cleanup entry of its trace.
C1_CleanupOnceLast ==
  /\ InCycle => ENABLED CycleStep
  /\ InCycle => "cleanup_show_media" \notin Range(trace)
  /\ pc = "returned" =>
       /\ trace # <<>>
       /\ Last(trace) = "cleanup_show_media"
       /\ Occurrences(trace, "cleanup_show_media") = 1

C1_Witness ==
  /\ pc = "returned"
  /\ total_parts = 0
  /\ raisedBy = NoExc
  /\ "split_video_into_parts" \in Range(trace)
  /\ Last(trace) = "cleanup_show_media"

\* C2: the stages run in program order, a stage starts only when every
\* earlier stage of the cycle completed without error, and after the first
\* failure no later production or publish stage runs, only cleanup.
C2_StrictOrder ==
  /\ \A k \in 1..Len(BodyTrace) : k <= Len(CycleSteps) /\ BodyTrace[k] = CycleSteps[k]
  /\ pc \in Range(CycleSteps) =>
       /\ raisedBy = NoExc
       /\ Len(BodyTrace) = StepIndex(pc) - 1
  /\ raisedBy # NoExc =>
       /\ BodyTrace # <<>>
       /\ Last(BodyTrace) = raisedBy
       /\ pc \in {"cleanup_show_media", "returned"}

C2_Witness ==
  /\ pc = "returned"
  /\ raisedBy = "generate_subtitles"
  /\ trace = <<"create_show_directories", "download_background_media",
               "select_show_participants", "generate_script",
               "generate_show_audio", "generate_subtitles", "cleanup_show_media">>

\* C3: no exception of a stage and no deletion error of the cleanup leaves
\* run_show_cycle: the call returns normally, and the error logged for the
\* abort is the one of the stage that raised, also when cleanup hit errors.
C3_NothingEscapes ==
  /\ escaped = NoExc
  /\ pc = "returned" => pending = NoExc
  /\ (pc = "returned" /\ raisedBy # NoExc) => logged = raisedBy

C3_Witness ==
  /\ pc = "returned"
  /\ raisedBy = "assemble_video"
  /\ logged = "assemble_video"
  /\ swallowed

\* C4 (as claimed): a received script with a line whose speaker_id is not the
\* id of a cast member, or with a line missing a required field, aborts the
\* cycle at generate_script and never reaches generate_show_audio.
C4_InvalidScriptRejected ==
  receivedBad =>
    /\ raisedBy = "generate_script"
    /\ pc \in {"cleanup_show_media", "returned"}
    /\ "generate_show_audio" \notin Range(trace)

\* C5: an empty script from the generator aborts the cycle: no audio,
\* subtitle, video, split or publish stage runs, and cleanup still runs.
C5_EmptyScriptAborts ==
  receivedEmpty =>
    /\ raisedBy = "generate_script"
    /\ pc \in {"cleanup_show_media", "returned"}
    /\ Range(trace) \cap ProductionSteps = {}
    /\ pc = "returned" => Last(trace) = "cleanup_show_media"

C5_Witness ==
  /\ receivedEmpty
  /\ importDir = "root"
  /\ pc = "returned"
  /\ logged = "generate_script"

\* number of log entries `ev` of part k
Count(ev, k) ==
  Cardinality({p \in 1..Len(postLog) : postLog[p].ev = ev /\ postLog[p].part = k})

\* the parts of the upload calls, in the order of the calls
UploadedParts ==
  LET calls == SelectSeq(postLog, LAMBDA e : e.ev = "upload")
  IN [k \in 1..Len(calls) |-> calls[k].part]

Transient == {"RequestException", "RuntimeError"}

\* C6: with a configured destination, every part is released exactly once,
\* whatever its upload did: the release follows the end of the part's own
\* upload call and precedes the upload call of the next part.
C6_ReleasedExactlyOnce ==
  is_configured =>
    \A k \in 1..total_parts :
      /\ Count("release", k) <= 1
      /\ \A p \in 1..Len(postLog) :
           /\ (postLog[p].ev = "release" /\ postLog[p].part = k) =>
                \E q \in 1..(p - 1) :
                  /\ postLog[q].part = k
                  /\ postLog[q].ev \in {"posted", "error"}
           /\ (postLog[p].ev = "upload" /\ postLog[p].part = k /\ k > 1) =>
                \E q \in 1..(p - 1) :
                  postLog[q].ev = "release" /\ postLog[q].part = k - 1
      /\ (PostEnded \/ k <= i \/ (pc = "post_sleep" /\ k = i + 1)) =>
           Count("release", k) = 1

C6_Witness ==
  /\ is_configured
  /\ pc = "returned"
  /\ total_parts = 3
  /\ \E p \in 1..Len(postLog) : postLog[p].ev = "posted" /\ postLog[p].part = 1
  /\ \E p \in 1..Len(postLog) :
       postLog[p].ev = "error" /\ postLog[p].part = 2 /\ postLog[p].exc = "RuntimeError"
  /\ \E p \in 1..Len(postLog) :
       postLog[p].ev = "error" /\ postLog[p].part = 3 /\ postLog[p].exc = "OSError"
  /\ \A k \in 1..3 : Count("release", k) = 1

\* C7: an upload that fails after exhausting its retries neither raises out
\* of post_all_parts nor stops it: the later parts are still uploaded, in
\* order, and the cycle is not aborted.
C7_PublishFailureContained ==
  (\E p \in 1..Len(postLog) : postLog[p].ev = "error" /\ postLog[p].exc \in Transient) =>
    /\ raisedBy = NoExc
    /\ postPending = NoExc
    /\ PostEnded => UploadedParts = [k \in 1..total_parts |-> k]
    /\ ~PostEnded =>
         UploadedParts = [k \in 1..(IF pc = "upload_stat" THEN i ELSE i + 1) |-> k]

C7_Witness ==
  /\ pc = "returned"
  /\ total_parts = 3
  /\ postLog[2] = Event("error", 1, 0, "RequestException")
  /\ UploadedParts = <<1, 2, 3>>
  /\ \E p \in 1..Len(postLog) : postLog[p].ev = "posted" /\ postLog[p].part = 3
  /\ raisedBy = NoExc

\* C8: when every attempt fails with a transient failure, the upload makes
\* exactly max_retries attempts, one wait between consecutive attempts, the
\* waits strictly increasing, and only then raises.
C8_RetryBudgetExhausted ==
  /\ attemptsMade <= max_retries
  /\ Len(delays) = IF pc = "upload_start" \/ attemptsMade = 0
                   THEN attemptsMade ELSE attemptsMade - 1
  /\ (pc = "upload_raised" /\ upExc \in Transient) =>
       /\ attemptsMade = max_retries
       /\ Len(delays) = max_retries - 1
       /\ \A k \in 1..Len(delays) : delays[k] > 0
       /\ \A k \in 1..(Len(delays) - 1) : delays[k] < delays[k + 1]

C8_Witness ==
  /\ pc = "upload_raised"
  /\ upExc = "RuntimeError"
  /\ max_retries = DefaultMaxRetries
  /\ attemptsMade = 3
  /\ delays = <<30, 60>>

\* C9 (as claimed): the backoff is exponential: each wait is the previous
\* wait multiplied by one constant factor greater than 1.
C9_ExponentialBackoff ==
  /\ \A k \in 1..(Len(delays) - 1) : delays[k + 1] > delays[k]
  /\ \A k \in 1..(Len(delays) - 2) :
       delays[k + 1] * delays[k + 1] = delays[k] * delays[k + 2]

\* C10: the upload reports success only if, in the attempt that returns,
\* the start response had no error and a session id, the transfer response
\* had no error, and the finish response had no error and a truthy success.
C10_SuccessNeedsAllAcks ==
  pc = "upload_returned" =>
    /\ init_response.transport = "ok" /\ ~init_response.error /\ init_response.session
    /\ transfer_response.transport = "ok" /\ ~transfer_response.error
    /\ finish_response.transport = "ok" /\ ~finish_response.error
    /\ finish_response.success = "true"

C10_Witness ==
  /\ pc = "upload_returned"
  /\ attempt = 1
  /\ delays = <<30>>
  /\ finish_response.success = "true"

\* C11: with an unconfigured destination post_all_parts issues no network
\* request and no inter-post sleep, and still releases every part of the
\* list exactly once.
C11_UnconfiguredReleasesAll ==
  (~is_configured /\ PostEnded) =>
     /\ \A k \in 1..Len(postLog) : postLog[k].ev = "release"
     /\ \A k \in 1..total_parts : Count("release", k) = 1
     /\ Len(postLog) = total_parts
     /\ attemptsMade = 0 /\ delays = <<>>

C11_Witness ==
  /\ ~is_configured /\ PostEnded /\ pc = "returned"
  /\ total_parts = MaxParts /\ Len(postLog) = MaxParts

\* C12: when split_video_into_parts returns zero parts the cycle builds no
\* posting engine and uploads nothing, ends production without an error, and
\* still runs cleanup.
C12_ZeroPartsSkipsPublishing ==
  ("split_video_into_parts" \in Range(trace) /\ raisedBy # "split_video_into_parts"
     /\ total_parts = 0) =>
     /\ pc \in {"cleanup_show_media", "returned"}
     /\ "post_all_parts" \notin Range(trace)
     /\ postLog = <<>> /\ attemptsMade = 0
     /\ raisedBy = NoExc /\ logged = NoExc /\ pending = NoExc
     /\ (pc = "returned" =>
           Last(trace) = "cleanup_show_media" /\ escaped = NoExc)

C12_Witness ==
  /\ pc = "returned" /\ total_parts = 0 /\ raisedBy = NoExc
  /\ "split_video_into_parts" \in Range(trace)
  /\ Last(trace) = "cleanup_show_media"

\* ---------------------------------------------- generate_show_audio
CastIds == Range(hosts) \cup Range(guests)

RECURSIVE TotalMs(_)
TotalMs(seq) == IF seq = <<>> THEN 0 ELSE seq[1] + TotalMs(Tail(seq))

\* the script lines of which the audio engine has kept no record
Unrecorded ==
  {k \in 1..Len(script) :
     \A r \in 1..Len(line_audio_metadata) : line_audio_metadata[r].path # k}

\* C13: generate_show_audio returns at most one record per script line, and
\* every record's speaker_id is the id of a member of the cast selected for
\* the cycle, not merely of a character the roster knows.
C13_RecordsWithinCast ==
  /\ Len(line_audio_metadata) <= Len(script)
  /\ \A r \in 1..Len(line_audio_metadata) :
       /\ line_audio_metadata[r].speaker_id.kind \in {"int", "float"}
       /\ line_audio_metadata[r].speaker_id.n \in CastIds

\* C14: the master track is the concatenation, in script order and without
\* inserted gaps, of exactly the line audios that have a record; the records
\* are an order-preserving subsequence of the script lines and the master
\* duration is the sum of the records' durations.
C14_MasterIsConcatenation ==
  /\ Len(combined_audio) = Len(line_audio_metadata)
  /\ \A r \in 1..Len(line_audio_metadata) :
       /\ combined_audio[r].line = line_audio_metadata[r].path
       /\ combined_audio[r].ms = line_audio_metadata[r].duration_ms
       /\ line_audio_metadata[r].path \in 1..Len(script)
       /\ line_audio_metadata[r].speaker_id =
            script[line_audio_metadata[r].path].speaker_id
       /\ r > 1 => line_audio_metadata[r - 1].path < line_audio_metadata[r].path
  /\ TotalMs([r \in 1..Len(combined_audio) |-> combined_audio[r].ms])
       = TotalMs([r \in 1..Len(line_audio_metadata) |->
                    line_audio_metadata[r].duration_ms])

C14_Witness ==
  /\ pc = "audio_returned"
  /\ Len(script) = 2 /\ Len(ttsCalls) = 2
  /\ Len(line_audio_metadata) = 1 /\ line_audio_metadata[1].path = 2
  /\ TotalMs([r \in 1..Len(combined_audio) |-> combined_audio[r].ms]) = MaxClipMs

\* C15: a bad script line (speaker unresolvable, synthesis error, unreadable
\* output, a missing field) never aborts the episode: it contributes neither
\* audio nor a record and generate_show_audio goes on with the next line and
\* returns normally.
C15_BadLineNeverAborts ==
  /\ pc = "audio_raised" => audioLine = Len(script)
  /\ \A k \in Unrecorded :
       \A c \in 1..Len(combined_audio) : combined_audio[c].line # k

\* C16: for every cast member and every voice key, mapped or not, the voice
\* used to synthesize the member's lines is a voice of the member's gender.
C16_NoCrossGenderVoice ==
  \A c \in 1..Len(ttsCalls) :
    VoiceGender(ttsCalls[c].speaker) = characters_by_id[ttsCalls[c].character].gender

\* the character a processed line resolves to has a voice key outside the table
UnmappedLine(k) ==
  /\ {"speaker_id", "text"} \subseteq script[k].keys
  /\ CharacterKnown(characters_by_id, script[k].speaker_id)
  /\ characters_by_id[script[k].speaker_id.n].voice
       \notin DOMAIN VOICE_MODEL_MAP(importDir)

\* C17: a line of a cast member whose voice key is absent from the voice
\* table is still synthesized, with the male canonical voice for a male
\* member and the female canonical voice for a female member.
C17_FallbackByGender ==
  \A k \in 1..audioLine :
    UnmappedLine(k) =>
      \E c \in 1..Len(ttsCalls) :
        /\ ttsCalls[c].line = k
        /\ ttsCalls[c].speaker =
             IF characters_by_id[script[k].speaker_id.n].gender = "male"
             THEN "p226" ELSE "p225"

C17_Witness ==
  /\ pc = "audio_returned" /\ audioLine = 2
  /\ UnmappedLine(1) /\ UnmappedLine(2)
  /\ {ttsCalls[c].speaker : c \in 1..Len(ttsCalls)} = {"p226", "p225"}

\* ------------------------------------------------------ generate_subtitles
\* the number a field of a timestamp shows
RECURSIVE FieldValue(_)
FieldValue(digits) ==
  IF digits = <<>> THEN 0
  ELSE 10 * FieldValue(SubSeq(digits, 1, Len(digits) - 1)) + digits[Len(digits)]

\* the time a timestamp shows, in milliseconds
ShownMillis(ts) ==
  FieldValue(ts.hours) * 3600000 + FieldValue(ts.minutes) * 60000
    + FieldValue(ts.seconds) * 1000 + FieldValue(ts.milliseconds)

\* the spans the cues written so far were made from
SourceSpans ==
  IF transcription.words # <<>> THEN transcription.words ELSE transcription.segments

\* C18: _format_timestamp rounds half-up to the nearest millisecond before
\* carrying: 0 s gives 00:00:00,000, 3661.2005 s gives 01:01:01,201, and
\* every input exactly halfway between two milliseconds goes to the upper one.
C18_RoundsHalfUp ==
  \A c \in 1..Len(srt_file) :
    LET h == SourceSpans[c].start
    IN /\ ShownMillis(srt_file[c].start) = (h + 1) \div 2
       /\ h = 0 => srt_file[c].start =
            [hours |-> <<0, 0>>, minutes |-> <<0, 0>>, seconds |-> <<0, 0>>,
             milliseconds |-> <<0, 0, 0>>]
       /\ h = 7322401 => srt_file[c].start =
            [hours |-> <<0, 1>>, minutes |-> <<0, 1>>, seconds |-> <<0, 1>>,
             milliseconds |-> <<2, 0, 1>>]

\* the fields of ts are in range and show a millisecond nearest to h / 2
CarriedTimestamp(ts, h) ==
  /\ Len(ts.hours) >= 2 /\ Len(ts.minutes) = 2 /\ Len(ts.seconds) = 2
  /\ Len(ts.milliseconds) = 3
  /\ FieldValue(ts.minutes) \in 0..59
  /\ FieldValue(ts.seconds) \in 0..59
  /\ FieldValue(ts.milliseconds) \in 0..999
  /\ 2 * ShownMillis(ts) - h \in {-1, 0, 1}

\* C19: the fields produced by _format_timestamp satisfy minutes in 0..59,
\* seconds in 0..59, milliseconds in 0..999, and together they show the input
\* rounded to milliseconds: the overflow of the rounding is carried through
\* seconds, minutes and hours.
C19_FieldsInRangeAndCarried ==
  \A c \in 1..Len(srt_file) :
    /\ CarriedTimestamp(srt_file[c].start, SourceSpans[c].start)
    /\ CarriedTimestamp(srt_file[c].end, SourceSpans[c].end)

C19_Witness ==
  /\ Len(srt_file) = 2
  /\ SourceSpans[1].start = 1999 /\ ShownMillis(srt_file[1].start) = 1000
  /\ SourceSpans[2].start = 7199999
  /\ srt_file[2].start =
       [hours |-> <<0, 1>>, minutes |-> <<0, 0>>, seconds |-> <<0, 0>>,
        milliseconds |-> <<0, 0, 0>>]

\* C20: with word-level spans generate_subtitles writes exactly one cue per
\* word, in the order of the words, each with that word's own start and end,
\* and the cues are numbered 1, 2, ..., n.
C20_OneCuePerWord ==
  transcription.words # <<>> =>
    /\ Len(srt_file) <= Len(transcription.words)
    /\ pc = "subs_returned" => Len(srt_file) = Len(transcription.words)
    /\ \A c \in 1..Len(srt_file) :
         /\ srt_file[c].number = c
         /\ srt_file[c].text = c
         /\ srt_file[c].start = FormatTimestamp(transcription.words[c].start)
         /\ srt_file[c].end = FormatTimestamp(transcription.words[c].end)

C20_Witness ==
  /\ pc = "subs_returned"
  /\ Len(transcription.words) = MaxWords /\ Len(srt_file) = MaxWords
  /\ transcription.words[1] # transcription.words[2]

\* ------------------------------------------------------------ splitting
\* the seconds of video covered by the first n parts
RECURSIVE CoveredSeconds(_)
CoveredSeconds(n) ==
  IF n = 0 THEN 0 ELSE CoveredSeconds(n - 1) + part_paths[n].span

\* C21: a video shorter than the too-short-to-split floor, a small multiple
\* of the part length (here twice the part length), is returned by
\* split_video_into_parts as exactly one part that spans the whole video.
C21_ShortVideoIsOnePart ==
  (/\ pc = "split_returned"
   /\ video_duration > 0
   /\ video_duration < 2 * PART_DURATION_SECONDS)
  => /\ Len(part_paths) = 1
     /\ part_paths[1].start = 0
     /\ part_paths[1].span = video_duration

\* C22: split_video_into_parts never returns a trailing part shorter than
\* the minimum floor of 10 seconds: the last part of a multi-part video is
\* at least 10 seconds long.
C22_NoShortTrailingPart ==
  (pc = "split_returned" /\ Len(part_paths) > 1)
  => Last(part_paths).span >= 10

\* C23: the parts cover the video without overlap or hole: each part starts
\* where the parts before it end, and on return the spans of the parts sum to
\* the duration of the video (nothing is discarded).
C23_PartsCoverVideo ==
  /\ \A k \in 1..Len(part_paths) :
       /\ part_paths[k].index = k
       /\ part_paths[k].start = CoveredSeconds(k - 1)
       /\ part_paths[k].span > 0
  /\ pc = "split_returned" => CoveredSeconds(Len(part_paths)) = video_duration

C23_Witness ==
  /\ pc = "split_returned"
  /\ Len(part_paths) = MaxParts
  /\ video_duration = (MaxParts - 1) * PART_DURATION_SECONDS + 1
  /\ Last(part_paths).span = 1

\* C24: split_video_into_parts never returns zero parts for a video of
\* non-zero duration.
C24_NeverZeroParts ==
  (pc = "split_returned" /\ video_duration > 0) => Len(part_paths) >= 1

C24_Witness ==
  /\ pc = "split_returned"
  /\ video_duration = 1
  /\ Len(part_paths) = 1 /\ part_paths[1].span = 1

\* -------------------------------------------------- background assets
\* C26: when the fetch of a background asset fails (connection error or
\* non-2xx status) the download raises an I/O error and the cycle is aborted:
\* the error is the one logged, and no cast selection, script, audio,
\* subtitle, video or publish stage is entered in that cycle, only cleanup.
C26_FetchFailureAbortsCycle ==
  fetchFailed =>
    /\ raisedBy = "download_background_media"
    /\ logged = "download_background_media"
    /\ BodyTrace = <<"create_show_directories", "download_background_media">>
    /\ pc \in {"cleanup_show_media", "returned"}
    /\ hosts = <<>> /\ guests = <<>> /\ script = <<>>
    /\ total_parts = 0 /\ postLog = <<>>

C26_Witness ==
  /\ fetchFailed
  /\ pc = "returned"
  /\ trace = <<"create_show_directories", "download_background_media",
               "cleanup_show_media">>

\* ------------------------------------------------------------ scheduling
\* C30: at no time are two show cycles active: a cycle starts only when no
\* cycle is running, and after the first one only when the cleanup of the
\* previous cycle has returned, also when the previous cycle slept between
\* posts (and so may have outlasted the scheduling interval).
C30_NoOverlappingCycles ==
  [][cycle' # cycle =>
       /\ ~InCycle
       /\ cycle' = cycle + 1
       /\ cycle > 0 => (trace # <<>> /\ Last(trace) = "cleanup_show_media")
       /\ pc' = "create_show_directories" /\ trace' = <<>>]_vars

C30_Witness ==
  /\ cycle = 2
  /\ prevWaited
  /\ pc = "create_show_directories"

\* -------------------------------------------------------------- storage
\* the calls of download_background_media that fetched asset a
FetchingCalls(a) == {k \in 1..Len(downloads) : a \in downloads[k].fetched}

\* C25: once a call of download_background_media has succeeded, every later
\* call fetches nothing, succeeds and leaves both cached files as they were,
\* and both files are there; when the first call succeeded, each asset was
\* fetched exactly once in total and is complete.
C25_DownloadIdempotent ==
  /\ \A j \in 1..Len(downloads) : \A k \in 1..Len(downloads) :
       (j < k /\ downloads[j].ok) =>
          /\ downloads[k].fetched = {}
          /\ downloads[k].changed = {}
          /\ downloads[k].ok
  /\ (\E j \in 1..Len(downloads) : downloads[j].ok) =>
       \A a \in CachePaths : fs[a] # Absent
  /\ (downloads # <<>> /\ downloads[1].ok) =>
       \A a \in CachePaths :
          /\ Cardinality(FetchingCalls(a)) = 1
          /\ fs[a] = "complete"

C25_Witness ==
  /\ Len(downloads) = 2
  /\ downloads[1].ok /\ downloads[1].fetched = CachePaths
  /\ downloads[2].ok /\ downloads[2].fetched = {}
  /\ pc = "st_returned"

\* the episode paths that a cleanup may leave: those whose deletion failed
\* and what lies in them
LeftBehind(p) == p \in delFailed \/ \E d \in delFailed : Inside(p, d)

\* the tree after one more cleanup_show_media of the episode, every deletion
\* of which succeeds (a failing deletion changes less)
SecondCleanup ==
  DeleteAll(fs, CleanupPaths(cycle), [p \in Range(CleanupPaths(cycle)) |-> "deleted"])

\* C27 (as stated): after cleanup_show_media returns no path carrying the
\* episode id remains, whatever stage the cycle had reached, and a second
\* call changes nothing.
C27_NothingRemains ==
  pc = "st_returned" =>
    /\ \A p \in EpisodePaths(cycle) : fs[p] = Absent
    /\ SecondCleanup = fs

\* C27 (amended): after cleanup_show_media returns, every path carrying the
\* episode id is gone except the paths whose deletion met an error and what
\* lies in them, whatever stage the cycle had reached; nothing is raised, and
\* a second call changes at most those left-behind paths.
C27_AllButFailedRemoved ==
  pc = "st_returned" =>
    /\ escaped = NoExc
    /\ \A p \in EpisodePaths(cycle) : fs[p] # Absent => LeftBehind(p)
    /\ \A p \in AllPaths : SecondCleanup[p] # fs[p] => LeftBehind(p)

C27_Witness ==
  /\ pc = "st_returned"
  /\ total_parts = MaxParts
  /\ delFailed = {MasterFile("master_video", cycle)}
  /\ \A p \in EpisodePaths(cycle) :
       fs[p] # Absent <=> p = MasterFile("master_video", cycle)

\* C28: cleanup_show_media never raises: it returns, _safe_delete is called
\* for all seven paths in order whatever the earlier deletions met, a path
\* that does not exist stays absent (nothing changes when none exists), and
\* every path whose deletion met no error is gone.
C28_CleanupNeverRaises ==
  [][pc = "st_cleanup" =>
       /\ pc' = "st_returned"
       /\ escaped' = NoExc
       /\ attempted' = CleanupPaths(cycle)
       /\ \A p \in Range(CleanupPaths(cycle)) :
            /\ fs[p] = Absent => fs'[p] = Absent
            /\ p \notin delFailed' => fs'[p] = Absent
       /\ (\A p \in Range(CleanupPaths(cycle)) : fs[p] = Absent) => fs' = fs]_vars

C28_Witness ==
  /\ pc = "st_returned"
  /\ delFailed = {ShowDir("show_audio_dir", cycle)}
  /\ fs[ShowDir("show_audio_dir", cycle)] = "dir"
  /\ attempted = CleanupPaths(cycle)
  /\ total_parts > 0
  /\ \A k \in 2..NumCleanupPaths : fs[CleanupPaths(cycle)[k]] = Absent

\* C29: cleanup_show_media and cleanup_posted_part leave the two cached
\* background files, and every path of another episode, exactly as they were.
C29_CleanupFrame ==
  [][(pc = "st_cleanup" \/ pc = "st_release") =>
       (\A p \in AllPaths :
          (p \in CachePaths \/ p.ep # cycle) => (fs'[p] = fs[p]))]_vars

C29_Witness ==
  /\ pc = "st_returned"
  /\ cycle = 2
  /\ total_parts > 0
  /\ fs[MasterFile("master_audio", 1)] = "file"
  /\ fs[BackgroundVideo] = "complete" /\ fs[BackgroundMusic] = "complete"
  /\ \A p \in EpisodePaths(2) : fs[p] = Absent

\* C36: the number of parts is the ceiling of duration / part length, the
\* part with 1-based index k starts at (k-1) * part length and spans at most
\* the part length, and only the final part can be shorter: it ends with the
\* video.
C36_CeilingAndOffsets ==
  /\ \A k \in 1..Len(part_paths) :
       /\ part_paths[k].start = (k - 1) * PART_DURATION_SECONDS
       /\ part_paths[k].span <= PART_DURATION_SECONDS
       /\ k < Len(part_paths) => part_paths[k].span = PART_DURATION_SECONDS
  /\ pc = "split_returned" =>
       /\ Len(part_paths) * PART_DURATION_SECONDS >= video_duration
       /\ Len(part_paths) > 0 =>
            /\ (Len(part_paths) - 1) * PART_DURATION_SECONDS < video_duration
            /\ Last(part_paths).start + Last(part_paths).span = video_duration

C36_Witness ==
  /\ pc = "split_returned"
  /\ video_duration = 2 * PART_DURATION_SECONDS + 75
  /\ Len(part_paths) = 3
  /\ part_paths[2].start = PART_DURATION_SECONDS
  /\ part_paths[3].span = 75

\* ------------------------------------------------------------------ cast
\* the voices the lines of character id were synthesized with
VoicesOf(id) ==
  {ttsCalls[k].speaker : k \in {c \in 1..Len(ttsCalls) : ttsCalls[c].character = id}}

\* C40: with the cast of select_show_participants (one static host, one
\* generated guest) the host and the guest have different ids, the guest has
\* the gender opposite to the host's, and no voice is used both for a line of
\* the host and for a line of the guest.
C40_HostAndGuestDiffer ==
  importDir = "root" =>
    /\ Len(hosts) = 1 /\ Len(guests) = 1
    /\ Range(hosts) \cap Range(guests) = {}
    /\ characters_by_id[guests[1]].gender # characters_by_id[hosts[1]].gender
    /\ VoicesOf(hosts[1]) \cap VoicesOf(guests[1]) = {}

C40_Witness ==
  /\ importDir = "root"
  /\ pc = "audio_returned"
  /\ hosts = <<2>>
  /\ Len(ttsCalls) = 2
  /\ ttsCalls[1].character = 2 /\ ttsCalls[1].speaker = "p225"
  /\ ttsCalls[2].character = GuestId /\ ttsCalls[2].speaker = "p226"

\* C37: a background file is at its cache path only if a download of it
\* completed: no truncated file is ever left there.
C37_CacheOnlyComplete ==
  \A a \in CachePaths : fs[a] \in {Absent, "complete"}

\* --------------------------------------------------------------- upload
\* C33: within an attempt the requests are start, transfer, finish in this
\* order; transfer and finish carry the session id the start of this attempt
\* returned; transfer follows a start that passed its checks and finish a
\* transfer that passed its checks; an attempt begins with no request issued,
\* so every retry issues a new start first.
C33_PhasesInOrder ==
  /\ Len(requests) <= 3
  /\ pc = "upload_start" => requests = <<>>
  /\ pc = "upload_transfer" => Len(requests) = 1
  /\ pc = "upload_finish" => Len(requests) = 2
  /\ Len(requests) >= 1 => requests[1] = Request("start", 0)
  /\ Len(requests) >= 2 =>
       /\ StartCheck(init_response) = NoExc
       /\ attemptsMade = attempt + 1
       /\ requests[2] = Request("transfer", attemptsMade)
  /\ Len(requests) >= 3 =>
       /\ TransferCheck(transfer_response) = NoExc
       /\ requests[3] = Request("finish", attemptsMade)

C33_Witness ==
  /\ pc = "upload_returned"
  /\ attempt = 2
  /\ requests = <<Request("start", 0), Request("transfer", 3), Request("finish", 3)>>

\* C38: across all retries of one _upload_to_facebook call the destination
\* publishes the part at most once.
C38_PublishedAtMostOnce == published <= 1

\* C39: an OSError of _upload_to_facebook (the part file missing at stat or
\* at open) ends the call at once, without another attempt or backoff sleep;
\* post_all_parts catches and logs it, releases the part and goes on with
\* the sleep and the next part, or ends normally after the last part.
C39_OSErrorNotRetried ==
  [][/\ (upExc' = "OSError" /\ upExc # "OSError") =>
          /\ pc' = "upload_raised"
          /\ delays' = delays /\ attempt' = attempt
     /\ (pc = "upload_raised" /\ upExc = "OSError") =>
          /\ pc' = "post_release"
          /\ postPending' = NoExc
          /\ postLog' = Append(postLog, Event("error", i + 1, 0, "OSError"))
     /\ (pc = "post_release" /\ Last(postLog) = Event("error", i + 1, 0, "OSError")) =>
          /\ postLog' = Append(postLog, Event("release", i + 1, 0, NoExc))
          /\ raisedBy' = NoExc
          /\ pc' = IF i + 1 < total_parts THEN "post_sleep" ELSE "cleanup_show_media"
     /\ pc = "post_sleep" => (pc' = "upload_stat" /\ i' = i + 1)]_vars

C39_Witness ==
  /\ pc = "upload_start"
  /\ i = 1
  /\ postLog = <<Event("upload", 1, 0, NoExc), Event("error", 1, 0, "OSError"),
                 Event("release", 1, 0, NoExc),
                 Event("sleep", 1, POSTING_INTERVAL_SECONDS, NoExc),
                 Event("upload", 2, 0, NoExc)>>

\* the positions of the log entries `ev`
Entries(ev) == {p \in 1..Len(postLog) : postLog[p].ev = ev}

\* C34: with a configured destination the parts are uploaded in ascending
\* order; every sleep lasts the fixed interval, follows directly the release
\* of its part, whatever the upload did, and is followed by the upload of the
\* next part; every upload but the first follows directly the sleep of the
\* part before; no sleep follows the last part, so N parts make N-1 sleeps.
C34_SleepsBetweenParts ==
  is_configured =>
    /\ \A k \in 1..Len(UploadedParts) : UploadedParts[k] = k
    /\ \A p \in Entries("sleep") :
         /\ postLog[p].secs = POSTING_INTERVAL_SECONDS
         /\ postLog[p].part < total_parts
         /\ p > 1 /\ postLog[p - 1] = Event("release", postLog[p].part, 0, NoExc)
         /\ p < Len(postLog) =>
              postLog[p + 1] = Event("upload", postLog[p].part + 1, 0, NoExc)
    /\ \A p \in Entries("upload") :
         postLog[p].part > 1 =>
           postLog[p - 1] = Event("sleep", postLog[p].part - 1,
                                  POSTING_INTERVAL_SECONDS, NoExc)
    /\ \A k \in 1..total_parts : Count("sleep", k) <= 1
    /\ (PostEnded /\ raisedBy = NoExc) =>
         /\ Len(UploadedParts) = total_parts
         /\ Cardinality(Entries("sleep")) = total_parts - 1

C34_Witness ==
  /\ is_configured
  /\ pc = "returned" /\ raisedBy = NoExc
  /\ total_parts = MaxParts
  /\ Cardinality(Entries("sleep")) = MaxParts - 1
  /\ Cardinality(Entries("error")) = 1
  /\ Cardinality(Entries("posted")) = MaxParts - 1

\* the numbers a caption shows
Shown(cap) == {cap[k].num : k \in {j \in 1..Len(cap) : cap[j].kind = "num"}}

Names(cap) == {cap[k].num : k \in {j \in 1..Len(cap) : cap[j].kind = "name"}}

Texts(cap) == {cap[k].text : k \in {j \in 1..Len(cap) : cap[j].kind = "lit"}}

\* C35 (as stated): for every total N >= 1 and every part k the caption has
\* the host and guest names, the index k and the total N.
C35_CaptionHasIndexAndTotal ==
  caption # <<>> =>
    /\ {hosts[1], guests[1]} \subseteq Names(caption)
    /\ {i + 1, total_parts} \subseteq Shown(caption)

\* C35 (amended): the caption always names the first host and the first
\* guest; for N >= 2 parts it also shows the index k and the total N, with
\* "More coming" for the first part, "FINAL PART" for the last and the bare
\* indicator for a middle part; for N = 1 it carries no part indicator.
C35_CaptionOfSplitVideo ==
  caption # <<>> =>
    /\ {hosts[1], guests[1]} \subseteq Names(caption)
    /\ total_parts = 1 => Shown(caption) = {}
    /\ total_parts >= 2 =>
         /\ Shown(caption) = {i + 1, total_parts}
         /\ (Lit("| More coming in 10 minutes...") \in Range(caption)) <=> (i + 1 = 1)
         /\ (Lit("FINAL PART (") \in Range(caption)) <=> (i + 1 = total_parts)
         /\ (Lit("PART") \in Range(caption)) <=> (i + 1 < total_parts)

C35_Witness ==
  /\ total_parts = 3 /\ i = 1
  /\ Shown(caption) = {2, 3}
  /\ Lit("PART") \in Range(caption)
  /\ Lit("FINAL PART (") \notin Range(caption)
  /\ Lit("| More coming in 10 minutes...") \notin Range(caption)

\* ------------------------------------------------------------ scheduler
\* C32: any two cycles started by the process have different episode ids,
\* hence different working directories and master file names.
C32_DistinctEpisodeIds ==
  \A j \in 1..Len(show_ids) : \A k \in 1..Len(show_ids) :
     j # k => /\ show_ids[j] # show_ids[k]
              /\ ShowDir("show_audio_dir", show_ids[j])
                   # ShowDir("show_audio_dir", show_ids[k])
              /\ MasterFile("master_video", show_ids[j])
                   # MasterFile("master_video", show_ids[k])

C32_Witness ==
  /\ Len(show_ids) = 2
  /\ show_ids = <<ShowId(0), ShowId(2 * SHOW_INTERVAL_SECONDS)>>
  /\ loopErrors = 0

\* C31: start_scheduler runs one cycle at once (its id is the start time) and
\* keeps starting cycles: absent a keyboard interrupt the first cycle starts,
\* after every cycle another one starts (up to the bound of the model), and
\* an exception caught in the loop is followed by the pause and the loop.
C31_KeepsStartingCycles ==
  /\ [](cycle >= 1 => show_ids[1] = ShowId(0))
  /\ (pc = "sch_boot") ~> (cycle >= 1 \/ pc = "sch_interrupted")
  /\ \A n \in 1..(MaxCycles - 1) :
       (cycle = n) ~> (cycle = n + 1 \/ pc = "sch_interrupted")
  /\ (pc = "sch_paused") ~> (pc = "sch_loop" \/ pc = "sch_interrupted")

C31_Witness ==
  /\ cycle = MaxCycles
  /\ loopErrors = MaxLoopErrors
  /\ pc = "sch_loop"

====
